---- MODULE Spec2Model ----
(***************************************************************************)
(* A model of the Lambda handlers of docker-selenium-lambdav2:             *)
(*   - main.py: handler (single and batch mode), process_single_user and   *)
(*     the step functions it calls, handle_post_login_pages;               *)
(*   - prep_handler.py / workspace_prep.py: process_workspace_prep.        *)
(* The browser, the Google pages, SFTP, DynamoDB, S3 and gcloud are the    *)
(* environment: every call into them is a nondeterministic choice among    *)
(* the outcomes the code distinguishes (a value, a timeout, an exception). *)
(*                                                                         *)
(* Python strings are sequences of tokens: a token is one character, or a  *)
(* run of non-blank characters that the code never looks into.  None is    *)
(* the one-token sequence NoneSeq, which no string of the model equals.    *)
(***************************************************************************)
EXTENDS Integers, Sequences, FiniteSets, TLC

\* ------------------------------------------------------------------ bounds

\* The first MaxVaried entries of a batch are arbitrary entries with arbitrary
\* outcomes; the entries after them are the default credential on the
\* all-success path, so that batches up to the cap are explored.
MaxVaried == 1

\* handle_post_login_pages is explored for max_attempts in 0..MaxAttempts.
MaxAttempts == 4

\* ------------------------------------------------------- program constants

\* main.py:1656  if len(users_batch) > 10
MaxUsers == 10

\* main.py:1013 / 1045  len(cleaned) >= 16
MinSecretLen == 16

\* main.py:564  attempt >= max_attempts - 3
LastAttempts == 3

\* main.py:815  for retry in range(3)
OtpRetries == 3

\* main.py:856, 865  retry < 2, retry == 2
LastOtpRetry == 2

\* prep_handler.py:437  while time.time() - start_time < 30
ReadWindow == 30

\* main.py:664  max_wait_attempts = 30
MaxWaitAttempts == 30

\* main.py:1334  max_retries = 3
MaxRetries == 3

\* main.py:1496-1500, 1535  len(clean_password) >= 16, == 19, count('-') >= 3
AppPwLen == 16
DashedLen == 19
MinDashes == 3

\* main.py:819  pyotp.TOTP(clean_secret): the interval of a code, in seconds
Period == 30

\* main.py:847, 858  time.sleep(5) and time.sleep(3) between two submissions
MinAttemptGap == 8

\* ------------------------------------------------------------ Python values

NoneSeq == <<"<None>">>
NoneStr == "<None>"

\* Python truthiness of a str-or-None value.
Truthy(s) == s # NoneSeq /\ s # <<>>

Min(a, b) == IF a < b THEN a ELSE b
Max(a, b) == IF a > b THEN a ELSE b

IsBlank(c) == c = " "

RECURSIVE LStrip(_)
LStrip(s) == IF s # <<>> /\ IsBlank(Head(s)) THEN LStrip(Tail(s)) ELSE s

RECURSIVE RStrip(_)
RStrip(s) ==
    IF s # <<>> /\ IsBlank(s[Len(s)]) THEN RStrip(SubSeq(s, 1, Len(s) - 1)) ELSE s

\* str.strip()
Strip(s) == RStrip(LStrip(s))

\* str.replace(" ", "")
RECURSIVE RemoveBlanks(_)
RemoveBlanks(s) ==
    IF s = <<>> THEN <<>>
    ELSE IF IsBlank(Head(s)) THEN RemoveBlanks(Tail(s))
    ELSE <<Head(s)>> \o RemoveBlanks(Tail(s))

UpperOf(c) ==
    CASE c = "a" -> "A"
      [] c = "b" -> "B"
      [] c = "c" -> "C"
      [] c = "d" -> "D"
      [] OTHER -> c

\* str.upper()
Upper(s) == [i \in 1..Len(s) |-> UpperOf(s[i])]

\* s[:4] and s[-4:] of Python slicing (shorter strings give the whole string)
First4(s) == SubSeq(s, 1, Min(4, Len(s)))
Last4(s) == SubSeq(s, Max(1, Len(s) - 3), Len(s))

Stars == <<"*", "*", "*", "*">>


\* secret_key[:4] + "****" + secret_key[-4:] if secret_key else None
MaskLeak(s) == s
Mask(s) == IF Truthy(s) THEN First4(s) \o Stars \o Last4(s) ELSE NoneSeq

AlnumChars == {"a", "b", "c", "d", "A", "B", "C", "D", "2", "3"}

\* str.isalnum(): every character alphanumeric and at least one character
IsAlnum(s) == s # <<>> /\ \A i \in 1..Len(s) : s[i] \in AlnumChars

\* ------------------------------------------------------------- input values

EmailA == <<"a@x.com">>
EmailB == <<" ", "b@x.com", " ">>
Blank == <<" ">>
Pw == <<"pw1">>
PwB == <<"pw2", " ">>

\* The default entry of a batch, and the entries that deviate from it.  A key
\* that is missing from the entry is Absent; a key whose JSON value is null
\* holds NoneSeq.
Absent == <<"<absent>">>
NominalEntry == [email |-> EmailA, password |-> Pw]
NullEntry == [email |-> NoneSeq, password |-> Pw]
Entries ==
    {NominalEntry,
     NullEntry,
     [email |-> EmailB, password |-> PwB],
     [email |-> EmailB, password |-> Absent],
     [email |-> Absent, password |-> Pw],
     [email |-> Blank, password |-> Pw],
     [email |-> EmailA, password |-> <<>>]}

\* dict.get(key, default)
Get(v, default) == IF v = Absent THEN default ELSE v

\* Text of page elements the TOTP secret is looked for in.
TextNominal ==
    <<"a", "b", "c", "d", " ", "2", "2", "2", "2", " ",
      "3", "3", "3", "3", " ", "d", "c", "b", "a">>
TextLong ==
    <<" ", "B", "B", "C", "D", "2", "2", "2", "2", "2",
      "3", "3", "3", "3", "D", "C", "B", "B", " ">>
TextShort == <<"a", "b", "c", "d", " ", "2", "2", "2", "2">>
TextDashed ==
    <<"A", "B", "C", "D", "-", "2", "2", "2", "2", "-",
      "3", "3", "3", "3", "-", "D", "C", "B", "A">>

\* ----------------------------------------------------- get_chrome_driver

NoDriver == 0

DriverOutcomes ==
    {"first_ok", "chrome_missing", "chromedriver_missing",
     "ctor_fail_retry_ok", "init_fail_retry_ok",
     "ctor_fail_retry_fail", "init_fail_retry_fail"}

\* main.py get_chrome_driver.  o is what the environment does: which binary is
\* missing, whether webdriver.Chrome or the first driver's set_page_load_timeout
\* raises.  sid is the next unused session id.  The result names the driver
\* returned (NoDriver when the call raises), the number of webdriver.Chrome
\* calls, the number of sessions constructed and then dropped without quit(),
\* and the exception text.
get_chrome_driver(o, sid) ==
    CASE o = "chrome_missing" ->
           [returned |-> NoDriver, ctorCalls |-> 0, dropped |-> 0,
            raised |-> <<"Chrome binary not found in Lambda environment">>]
      [] o = "chromedriver_missing" ->
           [returned |-> NoDriver, ctorCalls |-> 0, dropped |-> 0,
            raised |-> <<"ChromeDriver not found in Lambda environment">>]
      [] o = "first_ok" ->
           [returned |-> sid, ctorCalls |-> 1, dropped |-> 0, raised |-> NoneSeq]
      [] o = "ctor_fail_retry_ok" ->
           [returned |-> sid, ctorCalls |-> 2, dropped |-> 0, raised |-> NoneSeq]
      [] o = "init_fail_retry_ok" ->
           [returned |-> sid, ctorCalls |-> 2, dropped |-> 1, raised |-> NoneSeq]
      [] o = "ctor_fail_retry_fail" ->
           [returned |-> NoDriver, ctorCalls |-> 2, dropped |-> 0,
            raised |-> <<"Chrome driver initialization failed: ", "e2">>]
      [] o = "init_fail_retry_fail" ->
           [returned |-> NoDriver, ctorCalls |-> 2, dropped |-> 1,
            raised |-> <<"Chrome driver initialization failed: ", "e2">>]

\* ----------------------------------------------------------- step results

Ok3 == [success |-> TRUE, error_code |-> NoneStr, error_message |-> NoneSeq]
Fail3(code, msg) == [success |-> FALSE, error_code |-> code, error_message |-> msg]

ExcText == <<"WebDriverException">>

\* main.py login_google: every return statement of the function.
LoginResults ==
    {Ok3,
     Fail3("navigation_failed", ExcText),
     Fail3("LOGIN_PASSWORD_FIELD_NOT_FOUND",
           <<"Password field not found after email submission">>),
     Fail3("driver_crashed", <<"Driver crashed while checking URL: ">> \o ExcText),
     Fail3("ID_VERIFICATION_REQUIRED", <<"Manual ID verification required">>),
     Fail3("2FA_REQUIRED", <<"2FA required but secret is unknown">>),
     Fail3("OTP_REJECTED", <<"OTP code was rejected by Google">>),
     Fail3("OTP_SUBMISSION_ERROR", ExcText),
     Fail3("LOGIN_TIMEOUT", <<"Login timed out after 90 seconds. Last URL: ", "url">>),
     Fail3("LOGIN_EXCEPTION", ExcText)}

\* main.py setup_authenticator, the extraction of the secret.  A candidate is
\* the text of the element a locator resolved to, or NoneSeq when the locator
\* timed out.
Cleaned(text) == Upper(RemoveBlanks(Strip(text)))

\* the reference locators (main.py:1003-1018): length only
AcceptPrimary(text) == text # NoneSeq /\ Len(Cleaned(text)) >= MinSecretLen

\* the alternative locators (main.py:1039-1050): length and isalnum
AcceptAlternative(text) ==
    text # NoneSeq /\ Len(Cleaned(text)) >= MinSecretLen /\ IsAlnum(Cleaned(text))

RECURSIVE FirstPrimary(_)
FirstPrimary(cands) ==
    IF cands = <<>> THEN NoneSeq
    ELSE IF AcceptPrimary(Head(cands)) THEN Cleaned(Head(cands))
    ELSE FirstPrimary(Tail(cands))

RECURSIVE FirstAlternative(_)
FirstAlternative(cands) ==
    IF cands = <<>> THEN NoneSeq
    ELSE IF AcceptAlternative(Head(cands)) THEN Cleaned(Head(cands))
    ELSE FirstAlternative(Tail(cands))

ExtractSecret(page) ==
    IF Truthy(FirstPrimary(page.primary)) THEN FirstPrimary(page.primary)
    ELSE FirstAlternative(page.alternative)

NominalPage == [nav |-> "ok", primary |-> <<TextNominal>>, alternative |-> <<>>]
AuthPages ==
    {NominalPage,
     [nav |-> "ok", primary |-> <<NoneSeq, TextShort>>,
      alternative |-> <<TextShort, TextLong>>],
     [nav |-> "ok", primary |-> <<TextShort>>, alternative |-> <<TextDashed>>],
     [nav |-> "ok", primary |-> <<TextDashed>>, alternative |-> <<>>],
     [nav |-> "raise", primary |-> <<TextNominal>>, alternative |-> <<>>]}

Ok4(v) == [success |-> TRUE, value |-> v, error_code |-> NoneStr,
           error_message |-> NoneSeq]
Fail4(code, msg) == [success |-> FALSE, value |-> NoneSeq, error_code |-> code,
                     error_message |-> msg]

\* main.py setup_authenticator: driver.get raising ends in the outer except;
\* otherwise the result is decided by the extraction alone.
setup_authenticator(page) ==
    IF page.nav = "raise" THEN Fail4("AUTHENTICATOR_SETUP_EXCEPTION", ExcText)
    ELSE IF ~Truthy(ExtractSecret(page))
    THEN Fail4("SECRET_EXTRACTION_FAILED", <<"Failed to extract TOTP secret key">>)
    ELSE Ok4(ExtractSecret(page))

\* main.py upload_secret_to_sftp: (host, path), (None, None), or the ValueError
\* of int(SECRET_SFTP_PORT), which is raised outside the function's try.
SftpOutcomes == {"uploaded", "failed", "raise"}

SftpHost == "46.224.9.127"

UploadPropagates(o) ==
    IF o = "uploaded" THEN [sftp_host |-> SftpHost, raised |-> NoneSeq]
    ELSE [sftp_host |-> NoneStr, raised |-> <<"SSHException">>]
\* main.py:321-386: a connection or write error is caught at 383 and answered
\* with (None, None)
upload_secret_to_sftp(o) ==
    CASE o = "uploaded" -> [sftp_host |-> SftpHost, raised |-> NoneSeq]
      [] o = "failed" -> [sftp_host |-> NoneStr, raised |-> NoneSeq]
      [] o = "raise" ->
           [sftp_host |-> NoneStr,
            raised |-> <<"invalid literal for int() with base 10">>]

\* main.py:1569-1606: what the table does with put_item
DynamoOutcomes == {"saved", "failed"}

\* main.py:1578-1606: True, or False when anything in the try block raised
save_to_dynamodb(o) == o = "saved"

\* main.py verify_authenticator_setup: every return statement.
VerifyResults ==
    {Ok3,
     Fail3("OTP_INPUT_NOT_FOUND", <<"OTP input field not found">>),
     Fail3("AUTH_VERIFY_EXCEPTION", ExcText)}

\* main.py enable_two_step_verification: every return statement.
Enable2svResults ==
    {Ok3, Fail3("2SV_TIMEOUT", ExcText), Fail3("2SV_EXCEPTION", ExcText)}

\* What the 2-Step Verification page does: the navigation raises a
\* TimeoutException, the page shows 'Turn off', the 'Turn on' button is found
\* and clicked, execute_script raises on the click, or no control is found.
TwoSvPages ==
    {"navigation_timeout", "already_on", "turn_on_clicked", "click_raises",
     "nothing_found"}

Enable2svConfirming(page) ==
    CASE page = "navigation_timeout" -> Fail3("2SV_TIMEOUT", ExcText)
      [] page = "click_raises" -> Fail3("2SV_EXCEPTION", ExcText)
      [] page = "nothing_found" -> Fail3("2SV_EXCEPTION", ExcText)
      [] OTHER -> Ok3
\* main.py:1222-1301: turn_on_clicked is assigned and never read; the return
\* at 1293 is reached whenever nothing raised
enable_two_step_verification(page) ==
    CASE page = "navigation_timeout" -> Fail3("2SV_TIMEOUT", ExcText)
      [] page = "click_raises" -> Fail3("2SV_EXCEPTION", ExcText)
      [] OTHER -> Ok3

AppPwNominal ==
    <<"a", "b", "c", "d", "-", "a", "b", "c", "d", "-",
      "a", "b", "c", "d", "-", "a", "b", "c", "d">>

\* main.py generate_app_password: every return statement that can be reached.
\* The return at main.py:1557 cannot: the last attempt's TimeoutException is
\* re-raised at 1554 and every other path of the loop body continues,
\* returns or raises.
AppPasswordResults ==
    {Ok4(AppPwNominal),
     Fail4("APP_PASSWORD_EXCEPTION", ExcText)}


\* ------------------------------------------------------------------- state

VARIABLES
    program,        \* what is explored: a Lambda ("main", "prep") or one function
    pc,             \* the statement the invocation is at
    usersKind,      \* event["users"]: "absent", "falsy", "scalar" or "list"
    batchLen,       \* len(event["users"]) when it is a list
    users,          \* the entries of event["users"] read so far
    results,        \* handler / process_workspace_prep: results
    response,       \* what the invocation returned, NoResponse until then
    email,          \* process_single_user: email
    password,       \* process_single_user: password
    driver,         \* process_single_user / prep loop: driver
    secret_key,     \* process_single_user: secret_key
    app_password,   \* process_single_user: app_password
    step_completed, \* process_single_user: step_completed
    error_code,     \* process_single_user: error_code
    error_message,  \* process_single_user: error_message
    timings,        \* process_single_user: the keys of timings
    ret,            \* the record of the return statement reached, NoRet before
    exc,            \* an exception leaving process_single_user, NoneSeq if none
    calls,          \* the operations invoked for the current credential, in order
    stepResults,    \* the success flag each step of the credential returned
    extracted,      \* the secret setup_authenticator read from the page, if any
    nextSid,        \* the id the next constructed browser session gets
    handed,         \* sessions get_chrome_driver returned
    quitCalls,      \* sessions driver.quit() was invoked on
    gcdCalls,       \* get_chrome_driver calls of the invocation
    psuCalls,       \* process_single_user calls of the invocation
    varied,         \* the current credential may leave the nominal path
    max_attempts,   \* handle_post_login_pages: max_attempts
    attempt,        \* handle_post_login_pages: attempt, the ticks begun so far
    ticks,          \* what each tick observed and did
    plRet,          \* the tuple handle_post_login_pages returned
    caller,         \* login_google: called by process_single_user or directly
    event_totp,     \* the invocation's known_totp_secret / KNOWN_TOTP_SECRET
    known_totp_secret, \* login_google: known_totp_secret
    clock,          \* seconds since the start of a 30-second TOTP window
    retry,          \* login_google: retry, the submission attempts begun
    submitted_codes, \* the one-time codes entered and submitted, in order
    lgRet,          \* the tuple login_google returned
    otp_code,       \* verify_authenticator_setup: otp_code
    otp_input,      \* verify_authenticator_setup: the locator that gave otp_input
    verdicts,       \* the page's verdict on each code submitted to it
    vaRet,          \* the tuple verify_authenticator_setup returned
    ap_attempt,     \* generate_app_password: attempt
    ap_log,         \* the page actions each attempt performed
    apRet,          \* the tuple generate_app_password returned
    gd_files,       \* get_chrome_driver: the executables the environment has
    chrome_binary,
    chromedriver_path,
    ctor_log,       \* the webdriver.Chrome calls of the call
    gdRet,          \* what get_chrome_driver returned or raised
    sftp_outcome,   \* what the SFTP server did for the current credential
    dynamo_outcome, \* what the DynamoDB table did for the current credential
    installCalls,   \* install_gcloud calls of the invocation
    twosv_page,     \* what the 2-Step Verification page did for the credential
    tv_page,        \* enable_two_step_verification: the locators that resolve
    tv_tried,       \* the 'Turn on' locators looked up, in order
    turn_on_clicked,
    tvRet,          \* the tuple enable_two_step_verification returned
    form_page,      \* login_google: what the sign-in forms show
    form_log,       \* what login_google did to the forms, in order
    sf_env,         \* upload_secret_to_sftp: the SFTP settings of the environment
    transport,      \* the paramiko transport of the call
    sftp,           \* the SFTP client of the call
    sf_log,         \* the remote operations performed, in order
    sfRet,          \* the pair upload_secret_to_sftp returned
    wait_attempt,   \* login_google: the polling ticks done
    current_url,    \* the markers the URL read on the last tick contains
    lpRet,          \* the tuple the polling loop of login_google returned
    process,        \* run_gcloud_setup: the 'gcloud auth login' subprocess
    auth_url,
    code,           \* the verification code read from the page
    gs_elapsed,     \* seconds since start_time
    gsRet           \* the pair run_gcloud_setup returned

mainVars ==
    <<email, password, secret_key, app_password, step_completed, error_code,
      error_message, timings, ret, exc, stepResults, extracted, psuCalls,
      sftp_outcome, dynamo_outcome, twosv_page>>

sessionVars == <<driver, nextSid, handed, quitCalls, gcdCalls>>

batchVars == <<usersKind, batchLen, users, results, response>>

\* the locals of process_single_user that process_workspace_prep has no use for
prepKept ==
    <<secret_key, app_password, step_completed, error_code, error_message,
      timings, ret, exc, extracted, psuCalls, sftp_outcome, dynamo_outcome,
      twosv_page>>

handlerVars == <<batchVars, mainVars, sessionVars, calls, varied, installCalls>>

plVars == <<max_attempts, attempt, ticks, plRet>>

lgVars ==
    <<caller, event_totp, known_totp_secret, clock, retry, submitted_codes, lgRet>>

vaVars == <<otp_code, otp_input, verdicts, vaRet>>

apVars == <<ap_attempt, ap_log, apRet>>

gdVars == <<gd_files, chrome_binary, chromedriver_path, ctor_log, gdRet>>

tvVars == <<tv_page, tv_tried, turn_on_clicked, tvRet>>

lfVars == <<form_page, form_log>>

sfVars == <<sf_env, transport, sftp, sf_log, sfRet>>

lpVars == <<wait_attempt, current_url, lpRet>>

gsVars == <<process, auth_url, code, gs_elapsed, gsRet>>

\* the state of the functions that are explored on their own
fnVars == <<plVars, lgVars, vaVars, apVars, gdVars, tvVars, lfVars, sfVars, lpVars, gsVars>>

\* what the exploration of one function leaves alone
otherThanPl == <<handlerVars, lgVars, vaVars, apVars, gdVars, tvVars, lfVars, sfVars, lpVars, gsVars>>
otherThanLg == <<handlerVars, plVars, vaVars, apVars, gdVars, tvVars, lfVars, sfVars, lpVars, gsVars>>
otherThanVa == <<handlerVars, plVars, caller, event_totp, known_totp_secret, retry,
                 submitted_codes, lgRet, apVars, gdVars, tvVars, lfVars, sfVars, lpVars, gsVars>>
otherThanAp == <<handlerVars, plVars, lgVars, vaVars, gdVars, tvVars, lfVars, sfVars, lpVars, gsVars>>
otherThanGd == <<handlerVars, plVars, lgVars, vaVars, apVars, tvVars, lfVars, sfVars, lpVars, gsVars>>
otherThanTv == <<handlerVars, plVars, lgVars, vaVars, apVars, gdVars, lfVars, sfVars, lpVars, gsVars>>
otherThanLf == <<handlerVars, plVars, lgVars, vaVars, apVars, gdVars, tvVars, sfVars, lpVars, gsVars>>
otherThanSf == <<handlerVars, plVars, lgVars, vaVars, apVars, gdVars, tvVars, lfVars, lpVars, gsVars>>
otherThanLp == <<handlerVars, plVars, lgVars, vaVars, apVars, gdVars, tvVars, lfVars, sfVars, gsVars>>
otherThanGs == <<handlerVars, plVars, lgVars, vaVars, apVars, gdVars, tvVars, lfVars, sfVars, lpVars>>

vars == <<program, pc, handlerVars, fnVars>>

NoPairGs == [success |-> FALSE, message |-> NoneSeq]
NoGd == [driver |-> "none", raised |-> NoneSeq]
NoTuple4 == [success |-> FALSE, value |-> NoneSeq, error_code |-> NoneStr,
             error_message |-> NoneSeq]
NoCode == [key |-> NoneSeq, window |-> 0]
NoTuple == [success |-> FALSE, error_code |-> NoneStr, error_message |-> NoneSeq]

NoResponse == [status |-> NoneStr]
NoRet == [status |-> NoneStr]

UsersKinds == {"absent", "falsy", "scalar", "list"}

\* login_google is not under exploration.
LoginIdle ==
    /\ caller = "none"
    /\ event_totp = NoneSeq
    /\ known_totp_secret = NoneSeq
    /\ clock = 0

\* The state an invocation starts in, whatever the program.
InitCommon ==
    /\ users = <<>>
    /\ results = <<>>
    /\ response = NoResponse
    /\ email = NoneSeq
    /\ password = NoneSeq
    /\ driver = NoDriver
    /\ secret_key = NoneSeq
    /\ app_password = NoneSeq
    /\ step_completed = "init"
    /\ error_code = NoneStr
    /\ error_message = NoneSeq
    /\ timings = {}
    /\ sftp_outcome = "none"
    /\ twosv_page = "none"
    /\ installCalls = 0
    /\ dynamo_outcome = "none"
    /\ ret = NoRet
    /\ exc = NoneSeq
    /\ calls = <<>>
    /\ stepResults = <<>>
    /\ extracted = NoneSeq
    /\ nextSid = 1
    /\ handed = {}
    /\ quitCalls = {}
    /\ gcdCalls = 0
    /\ psuCalls = 0
    /\ varied = TRUE
    /\ attempt = 0
    /\ ticks = <<>>
    /\ plRet = NoTuple
    /\ retry = 0
    /\ submitted_codes = <<>>
    /\ lgRet = NoTuple
    /\ otp_code = NoCode
    /\ otp_input = "none"
    /\ verdicts = <<>>
    /\ vaRet = NoTuple
    /\ ap_attempt = 0
    /\ ap_log = <<>>
    /\ apRet = NoTuple4
    /\ chrome_binary = NoneStr
    /\ chromedriver_path = NoneStr
    /\ ctor_log = <<>>
    /\ gdRet = NoGd
    /\ tv_tried = <<>>
    /\ form_log = <<>>
    /\ process = "none"
    /\ auth_url = NoneStr
    /\ code = NoneStr
    /\ gs_elapsed = 0
    /\ gsRet = NoPairGs
    /\ wait_attempt = 0
    /\ current_url = {}
    /\ lpRet = NoTuple
    /\ transport = "none"
    /\ sftp = "none"
    /\ sf_log = <<>>
    /\ sfRet = [sftp_host |-> "unset", remote_path |-> NoneSeq]
    /\ turn_on_clicked = FALSE
    /\ tvRet = NoTuple

\* An outcome off the nominal path is taken only by a varied credential.
Mark(nominal) == nominal \/ varied

\* ---------------------------------------------------------- main.py handler

\* The locals of process_single_user at its entry (main.py:1728-1736).
EnterPsu(e, p) ==
    /\ email' = e
    /\ password' = p
    /\ driver' = NoDriver
    /\ secret_key' = NoneSeq
    /\ app_password' = NoneSeq
    /\ step_completed' = "init"
    /\ error_code' = NoneStr
    /\ error_message' = NoneSeq
    /\ timings' = {}
    /\ sftp_outcome' = "none"
    /\ twosv_page' = "none"
    /\ dynamo_outcome' = "none"
    /\ ret' = NoRet
    /\ exc' = NoneSeq
    /\ calls' = <<>>
    /\ stepResults' = <<>>
    /\ extracted' = NoneSeq
    /\ psuCalls' = psuCalls + 1
    /\ pc' = "driver_init"

TooManyWrong(n) == n > MaxUsers + 1
\* main.py:1656
TooMany(n) == n > MaxUsers

\* what event.get("email", os.environ.get("GW_EMAIL")) can give in single mode
SingleEmails == {NoneSeq, <<>>, EmailA}
SinglePasswords == {NoneSeq, Pw}

\* main.py:1645-1661 and 1703-1720: the dispatch of handler.
handler ==
    /\ program = "main"
    /\ UNCHANGED <<fnVars, installCalls>>
    /\ pc = "start"
    /\ IF usersKind = "scalar" \/ (usersKind = "list" /\ batchLen > 0)
       THEN /\ IF usersKind # "list"
               THEN /\ response' =
                         [status |-> "failed",
                          error_message |-> <<"Invalid 'users' field - must be a list">>,
                          results |-> <<>>]
                    /\ pc' = "done"
               ELSE IF TooMany(batchLen)
               THEN /\ response' =
                         [status |-> "failed",
                          error_message |->
                              <<"Too many users in batch: ", "len(users_batch)",
                                ". Maximum is 10.">>,
                          results |-> <<>>]
                    /\ pc' = "done"
               ELSE /\ response' = response
                    /\ pc' = "batch_loop"
            /\ UNCHANGED <<mainVars, driver, calls>>
       ELSE \E e \in SingleEmails, p \in SinglePasswords :
              IF ~Truthy(e) \/ ~Truthy(p)
              THEN /\ response' =
                        [status |-> "failed", step_completed |-> "init",
                         error_step |-> "init",
                         error_message |->
                             <<"Email or password not provided in event or environment">>,
                         app_password |-> NoneSeq, secret_key |-> NoneSeq,
                         timings |-> {}]
                   /\ pc' = "done"
                   /\ UNCHANGED <<mainVars, driver, calls>>
              ELSE /\ EnterPsu(e, p)
                   /\ response' = response
    /\ UNCHANGED <<program, usersKind, batchLen, users, results, nextSid, handed,
                   quitCalls, gcdCalls, varied>>

InvalidEntryRecord(e) ==
    [email |-> IF Truthy(e) THEN e ELSE <<"unknown">>,
     status |-> "failed",
     error_message |-> <<"Email or password not provided">>,
     app_password |-> NoneSeq,
     secret_key |-> NoneSeq]

\* main.py:1669-1670: .strip() is called on whatever dict.get returned; None
\* has no strip, and the AttributeError is raised outside every try.
StripRaises(v) == v = NoneSeq

\* main.py:1667-1683: one iteration of the batch loop, up to the call of
\* process_single_user.
batch_next ==
    /\ program = "main"
    /\ UNCHANGED <<fnVars, installCalls>>
    /\ pc = "batch_loop"
    /\ Len(users) < batchLen
    /\ \E entry \in Entries :
         LET ge == Get(entry.email, <<>>)
             gp == Get(entry.password, <<>>)
             e == Strip(ge)
             p == Strip(gp)
             nominal == entry = NominalEntry
         IN /\ varied' = (Len(users) < MaxVaried)
            /\ nominal \/ varied'
            /\ users' = Append(users, entry)
            /\ IF StripRaises(ge) \/ StripRaises(gp)
               THEN /\ pc' = "crashed"
                    /\ UNCHANGED <<results, mainVars, driver, calls>>
               ELSE IF ~Truthy(e) \/ ~Truthy(p)
               THEN /\ results' = Append(results, InvalidEntryRecord(e))
                    /\ UNCHANGED <<pc, mainVars, driver, calls>>
               ELSE /\ EnterPsu(e, p)
                    /\ results' = results
    /\ UNCHANGED <<program, usersKind, batchLen, response, nextSid, handed,
                   quitCalls, gcdCalls>>

SuccessCount(rs) == Cardinality({i \in 1..Len(rs) : rs[i].status = "success"})

\* main.py:1685-1701: the batch response.
batch_finish ==
    /\ program = "main"
    /\ UNCHANGED <<fnVars, installCalls>>
    /\ pc = "batch_loop"
    /\ Len(users) = batchLen
    /\ response' =
         [status |-> "completed",
          batch_size |-> batchLen,
          success_count |-> SuccessCount(results),
          failed_count |-> Len(results) - SuccessCount(results),
          results |-> results]
    /\ pc' = "done"
    /\ UNCHANGED <<program, usersKind, batchLen, users, results, mainVars,
                   sessionVars, calls, varied>>


\* ---------------------------------------------- main.py process_single_user

\* the record of the return statements at main.py:1753, 1772, 1799, 1818, 1841
FailRecord(msg, sk, tm) ==
    [email |-> email, status |-> "failed", step_completed |-> step_completed',
     error_step |-> step_completed', error_message |-> msg,
     app_password |-> NoneSeq, secret_key |-> sk, timings |-> tm]

SuccessRecordUnmasked(tm) ==
    [email |-> email, status |-> "success", step_completed |-> "completed",
     error_step |-> NoneStr, error_message |-> NoneSeq,
     app_password |-> app_password, secret_key |-> secret_key,
     timings |-> tm]
\* the record of the return statement at main.py:1869
SuccessRecord(tm) ==
    [email |-> email, status |-> "success", step_completed |-> "completed",
     error_step |-> NoneStr, error_message |-> NoneSeq,
     app_password |-> app_password, secret_key |-> Mask(secret_key),
     timings |-> tm]

\* the record of the except block, main.py:1887
ExceptRecord(e, tm) ==
    [email |-> email, status |-> "failed", step_completed |-> step_completed,
     error_step |-> step_completed,
     error_message |-> <<"Unhandled exception: ">> \o e,
     app_password |-> app_password, secret_key |-> Mask(secret_key),
     timings |-> tm]

CaughtNever(e) == FALSE
\* main.py:1880  except Exception: every exception the body raises is one
Caught(e) == TRUE

\* An exception raised in the try block of process_single_user.
Raise(e) ==
    /\ pc' = "finally"
    /\ IF Caught(e)
       THEN /\ timings' = timings \cup {"total"}
            /\ ret' = ExceptRecord(e, timings')
            /\ exc' = NoneSeq
       ELSE /\ timings' = timings
            /\ ret' = NoRet
            /\ exc' = e

StepFailedNever(r) == FALSE
\* main.py:1751, 1770, 1797, 1816, 1839  if not success
StepFailed(r) == ~r.success

\* main.py:1739-1743  Step 0
psu_driver_init ==
    /\ program = "main"
    /\ UNCHANGED <<fnVars, installCalls>>
    /\ pc = "driver_init"
    /\ \E o \in DriverOutcomes :
         LET r == get_chrome_driver(o, nextSid)
         IN /\ Mark(o = "first_ok")
            /\ gcdCalls' = gcdCalls + 1
            /\ calls' = Append(calls, "get_chrome_driver")
            /\ nextSid' = IF r.raised = NoneSeq THEN nextSid + 1 ELSE nextSid
            /\ IF r.raised = NoneSeq
               THEN /\ driver' = r.returned
                    /\ handed' = handed \cup {r.returned}
                    /\ timings' = timings \cup {"driver_init"}
                    /\ pc' = "login"
                    /\ UNCHANGED <<ret, exc>>
               ELSE /\ Raise(r.raised)
                    /\ UNCHANGED <<driver, handed>>
    /\ UNCHANGED <<varied, program, batchVars, twosv_page, sftp_outcome, dynamo_outcome, email, password, secret_key, app_password,
                   step_completed, error_code, error_message, stepResults,
                   extracted, psuCalls, quitCalls>>

\* main.py:1745-1762  Step 1
psu_login ==
    /\ program = "main"
    /\ UNCHANGED <<fnVars, installCalls>>
    /\ pc = "login"
    /\ step_completed' = "login"
    /\ \E r \in LoginResults :
         /\ Mark(r = Ok3)
         /\ error_code' = r.error_code
         /\ error_message' = r.error_message
         /\ stepResults' = Append(stepResults, r.success)
         /\ timings' = timings \cup {"login"}
         /\ IF StepFailed(r)
            THEN /\ ret' = FailRecord(r.error_message, NoneSeq, timings')
                 /\ pc' = "finally"
            ELSE /\ ret' = ret
                 /\ pc' = "authenticator_setup"
    /\ calls' = Append(calls, "login")
    /\ UNCHANGED <<varied, program, batchVars, twosv_page, sftp_outcome, dynamo_outcome, email, password, secret_key, app_password,
                   exc, extracted, psuCalls, sessionVars>>

\* main.py:1764-1781  Step 2
psu_authenticator_setup ==
    /\ program = "main"
    /\ UNCHANGED <<fnVars, installCalls>>
    /\ pc = "authenticator_setup"
    /\ step_completed' = "authenticator_setup"
    /\ \E page \in AuthPages :
         LET r == setup_authenticator(page)
         IN /\ Mark(page = NominalPage)
            /\ secret_key' = r.value
            /\ extracted' = IF page.nav = "ok" THEN ExtractSecret(page) ELSE NoneSeq
            /\ error_code' = r.error_code
            /\ error_message' = r.error_message
            /\ stepResults' = Append(stepResults, r.success)
            /\ timings' = timings \cup {"authenticator_setup"}
            /\ IF StepFailed(r)
               THEN /\ ret' = FailRecord(r.error_message, NoneSeq, timings')
                    /\ pc' = "finally"
               ELSE /\ ret' = ret
                    /\ pc' = "sftp_upload"
    /\ calls' = Append(calls, "authenticator_setup")
    /\ UNCHANGED <<varied, program, batchVars, twosv_page, sftp_outcome, dynamo_outcome, email, password, app_password, exc,
                   psuCalls, sessionVars>>

\* main.py:1783-1789  Step 2.5: a failed upload is logged, nothing else
psu_sftp_upload ==
    /\ program = "main"
    /\ UNCHANGED <<fnVars, installCalls>>
    /\ pc = "sftp_upload"
    /\ \E o \in SftpOutcomes :
         LET r == upload_secret_to_sftp(o)
         IN /\ Mark(o = "uploaded")
            /\ sftp_outcome' = o
            /\ IF r.raised # NoneSeq
               THEN Raise(r.raised)
               ELSE /\ timings' = timings \cup {"sftp_upload"}
                    /\ pc' = "verify_authenticator"
                    /\ UNCHANGED <<ret, exc>>
    /\ calls' = Append(calls, "sftp_upload")
    /\ UNCHANGED <<varied, program, batchVars, twosv_page, dynamo_outcome, email, password, secret_key, app_password,
                   step_completed, error_code, error_message, stepResults,
                   extracted, psuCalls, sessionVars>>

\* main.py:1791-1808  Step 3a
psu_verify_authenticator ==
    /\ program = "main"
    /\ UNCHANGED <<fnVars, installCalls>>
    /\ pc = "verify_authenticator"
    /\ step_completed' = "verify_authenticator"
    /\ \E r \in VerifyResults :
         /\ Mark(r = Ok3)
         /\ error_code' = r.error_code
         /\ error_message' = r.error_message
         /\ stepResults' = Append(stepResults, r.success)
         /\ timings' = timings \cup {"verify_authenticator"}
         /\ IF StepFailed(r)
            THEN /\ ret' = FailRecord(r.error_message, Mask(secret_key), timings')
                 /\ pc' = "finally"
            ELSE /\ ret' = ret
                 /\ pc' = "enable_2sv"
    /\ calls' = Append(calls, "verify_authenticator")
    /\ UNCHANGED <<varied, program, batchVars, twosv_page, sftp_outcome, dynamo_outcome, email, password, secret_key, app_password,
                   exc, extracted, psuCalls, sessionVars>>

\* main.py:1810-1831  Step 3b
psu_enable_2sv ==
    /\ program = "main"
    /\ UNCHANGED <<fnVars, installCalls>>
    /\ pc = "enable_2sv"
    /\ step_completed' = "enable_2sv"
    /\ \E page \in TwoSvPages :
         LET r == enable_two_step_verification(page)
         IN /\ Mark(page = "turn_on_clicked")
            /\ twosv_page' = page
            /\ error_code' = r.error_code
            /\ error_message' = r.error_message
            /\ stepResults' = Append(stepResults, r.success)
            /\ timings' = timings \cup {"enable_2sv"}
            /\ IF StepFailed(r)
               THEN /\ ret' = FailRecord(r.error_message, Mask(secret_key), timings')
                    /\ pc' = "finally"
               ELSE /\ ret' = ret
                    /\ pc' = "app_password"
    /\ calls' = Append(calls, "enable_2sv")
    /\ UNCHANGED <<varied, program, batchVars, sftp_outcome, dynamo_outcome, email, password, secret_key, app_password,
                   exc, extracted, psuCalls, sessionVars>>

\* main.py:1833-1850  Step 4
psu_app_password ==
    /\ program = "main"
    /\ UNCHANGED <<fnVars, installCalls>>
    /\ pc = "app_password"
    /\ step_completed' = "app_password"
    /\ \E r \in AppPasswordResults :
         /\ Mark(r = Ok4(AppPwNominal))
         /\ app_password' = r.value
         /\ error_code' = r.error_code
         /\ error_message' = r.error_message
         /\ stepResults' = Append(stepResults, r.success)
         /\ timings' = timings \cup {"app_password"}
         /\ IF StepFailed(r)
            THEN /\ ret' = FailRecord(r.error_message, Mask(secret_key), timings')
                 /\ pc' = "finally"
            ELSE /\ ret' = ret
                 /\ pc' = "dynamodb_save"
    /\ calls' = Append(calls, "app_password")
    /\ UNCHANGED <<varied, program, batchVars, twosv_page, sftp_outcome, dynamo_outcome, email, password, secret_key, exc, extracted,
                   psuCalls, sessionVars>>

\* main.py:1852-1878  Step 4.5 and the success record: a failed save is logged
psu_dynamodb_save ==
    /\ program = "main"
    /\ UNCHANGED <<fnVars, installCalls>>
    /\ pc = "dynamodb_save"
    /\ \E o \in DynamoOutcomes :
         /\ Mark(save_to_dynamodb(o))
         /\ dynamo_outcome' = o
    /\ step_completed' = "completed"
    /\ timings' = timings \cup {"dynamodb_save", "total"}
    /\ ret' = SuccessRecord(timings')
    /\ pc' = "finally"
    /\ calls' = Append(calls, "dynamodb_save")
    /\ UNCHANGED <<varied, program, batchVars, twosv_page, sftp_outcome, email, password, secret_key, app_password,
                   error_code, error_message, exc, stepResults, extracted,
                   psuCalls, sessionVars>>

FinallyQuitsNever(d) == FALSE
\* main.py:1900  if driver
FinallyQuits(d) == d # NoDriver

\* main.py:1683  results.append(user_result)
AppendResult(rs, r) == Append(rs, r)

\* main.py:1898-1905 the finally block.  driver.quit() raising is swallowed by
\* the bare except.
psu_finally ==
    /\ program = "main"
    /\ UNCHANGED <<fnVars, installCalls>>
    /\ pc = "finally"
    /\ IF FinallyQuits(driver)
       THEN /\ quitCalls' = quitCalls \cup {driver}
            /\ calls' = Append(calls, "driver.quit")
       ELSE UNCHANGED <<quitCalls, calls>>
    /\ pc' = "return"
    /\ UNCHANGED <<program, batchVars, mainVars, driver, nextSid, handed, gcdCalls, varied>>

\* The locals of process_single_user end with the call.
LeavePsu ==
    /\ email' = NoneSeq
    /\ password' = NoneSeq
    /\ driver' = NoDriver
    /\ secret_key' = NoneSeq
    /\ app_password' = NoneSeq
    /\ step_completed' = "init"
    /\ error_code' = NoneStr
    /\ error_message' = NoneSeq
    /\ timings' = {}
    /\ sftp_outcome' = "none"
    /\ twosv_page' = "none"
    /\ dynamo_outcome' = "none"
    /\ ret' = NoRet
    /\ exc' = NoneSeq
    /\ calls' = <<>>
    /\ stepResults' = <<>>
    /\ extracted' = NoneSeq

\* The return of process_single_user to its caller: the batch loop
\* (main.py:1682-1683), the Lambda runtime (main.py:1720), or, for an exception
\* nothing caught, the end of the invocation.
psu_return ==
    /\ program = "main"
    /\ UNCHANGED <<fnVars, installCalls>>
    /\ pc = "return"
    /\ IF exc # NoneSeq
       THEN /\ pc' = "crashed"
            /\ UNCHANGED <<results, response>>
       ELSE IF usersKind = "list" /\ batchLen > 0
       THEN /\ results' = AppendResult(results, ret)
            /\ pc' = "batch_loop"
            /\ response' = response
       ELSE /\ response' = ret
            /\ pc' = "done"
            /\ results' = results
    /\ LeavePsu
    /\ UNCHANGED <<program, usersKind, batchLen, users, psuCalls, nextSid, handed,
                   quitCalls, gcdCalls, varied>>

\* ------------------- prep_handler.py / workspace_prep.py (the same loop)

PrepDriverOutcomes ==
    {"first_ok", "chrome_missing", "chromedriver_missing", "ctor_raise",
     "init_raise"}

\* prep_handler.py get_chrome_driver: no retry, the exception is re-raised
\* (prep_handler.py:222-225).  workspace_prep.py's has the outcomes first_ok
\* and ctor_raise only.
prep_get_chrome_driver(o, sid) ==
    CASE o = "first_ok" ->
           [returned |-> sid, ctorCalls |-> 1, dropped |-> 0, raised |-> NoneSeq]
      [] o = "init_raise" ->
           [returned |-> NoDriver, ctorCalls |-> 1, dropped |-> 1, raised |-> ExcText]
      [] o = "ctor_raise" ->
           [returned |-> NoDriver, ctorCalls |-> 1, dropped |-> 0, raised |-> ExcText]
      [] o = "chrome_missing" ->
           [returned |-> NoDriver, ctorCalls |-> 0, dropped |-> 0,
            raised |-> <<"Chrome binary not found in Lambda environment">>]
      [] o = "chromedriver_missing" ->
           [returned |-> NoDriver, ctorCalls |-> 0, dropped |-> 0,
            raised |-> <<"ChromeDriver not found in Lambda environment">>]

PrepFail(e, msg) == [email |-> e, success |-> FALSE, error |-> msg]
PrepDone(e) ==
    [email |-> e, success |-> TRUE,
     message |-> <<"G-Workspace Prep Completed Successfully">>]

S3RecordOptimistic(e, uploaded) == PrepDone(e)
\* prep_handler.py:317-335: the record appended after s3.put_object
S3Record(e, uploaded) ==
    IF uploaded THEN PrepDone(e)
    ELSE PrepFail(e, <<"S3 Upload Failed: ">> \o ExcText)

\* prep_handler.py:55-67 handler and 270-281: install_gcloud, once.
prep_start ==
    /\ program = "prep"
    /\ UNCHANGED fnVars
    /\ pc = "start"
    /\ IF usersKind \in {"absent", "falsy"} \/ (usersKind = "list" /\ batchLen = 0)
       THEN /\ response' = [status |-> "failed", error |-> <<"No users provided">>]
            /\ pc' = "done"
            /\ UNCHANGED <<calls, installCalls>>
       ELSE \E installed \in BOOLEAN :
              /\ Mark(installed)
              /\ calls' = Append(calls, "install_gcloud")
              /\ installCalls' = installCalls + 1
              /\ IF ~installed
                 THEN /\ response' =
                           [status |-> "failed",
                            error |-> <<"Gcloud install failed: ">> \o ExcText]
                      /\ pc' = "done"
                 ELSE /\ response' = response
                      \* iterating a value that is no list of dicts raises at
                      \* prep_handler.py:283-284, outside every try
                      /\ pc' = IF usersKind = "list" THEN "prep_loop" ELSE "crashed"
    /\ UNCHANGED <<varied, program, usersKind, batchLen, users, results, mainVars,
                   sessionVars>>

\* prep_handler.py:283-287: the next user of the loop.
prep_next ==
    /\ program = "prep"
    /\ UNCHANGED <<fnVars, installCalls>>
    /\ pc = "prep_loop"
    /\ Len(users) < batchLen
    /\ \E entry \in Entries :
         LET nominal == entry = NominalEntry
         IN /\ varied' = (Len(users) < MaxVaried)
            /\ nominal \/ varied'
            /\ users' = Append(users, entry)
            /\ email' = Get(entry.email, NoneSeq)
            /\ password' = Get(entry.password, NoneSeq)
    /\ driver' = NoDriver
    /\ calls' = <<>>
    /\ stepResults' = <<>>
    /\ pc' = "prep_driver"
    /\ UNCHANGED <<program, usersKind, batchLen, results, response, prepKept, nextSid,
                   handed, quitCalls, gcdCalls>>

\* prep_handler.py:351
prep_finish ==
    /\ program = "prep"
    /\ UNCHANGED <<fnVars, installCalls>>
    /\ pc = "prep_loop"
    /\ Len(users) = batchLen
    /\ response' = [status |-> "completed", results |-> results]
    /\ pc' = "done"
    /\ UNCHANGED <<program, usersKind, batchLen, users, results, mainVars,
                   sessionVars, calls, varied>>

\* prep_handler.py:343-349: the except block of the loop body.
PrepExcept(rs, e) == Append(rs, PrepFail(email, e))

\* prep_handler.py:296, 303, 341: driver.quit() inside the try; when it raises,
\* the except block appends a record and calls driver.quit() once more.
PrepQuit(rs, quitRaises) == IF quitRaises THEN PrepExcept(rs, ExcText) ELSE rs

\* prep_handler.py:289-290
prep_driver ==
    /\ program = "prep"
    /\ UNCHANGED <<fnVars, installCalls>>
    /\ pc = "prep_driver"
    /\ \E o \in PrepDriverOutcomes :
         LET r == prep_get_chrome_driver(o, nextSid)
         IN /\ Mark(o = "first_ok")
            /\ gcdCalls' = gcdCalls + 1
            /\ calls' = Append(calls, "get_chrome_driver")
            /\ nextSid' = IF r.raised = NoneSeq THEN nextSid + 1 ELSE nextSid
            /\ stepResults' = Append(stepResults, r.raised = NoneSeq)
            /\ IF r.raised = NoneSeq
               THEN /\ driver' = r.returned
                    /\ handed' = handed \cup {r.returned}
                    /\ pc' = "prep_login"
                    /\ results' = results
               ELSE /\ results' = PrepExcept(results, r.raised)
                    /\ pc' = "prep_loop"
                    /\ UNCHANGED <<driver, handed>>
    /\ UNCHANGED <<varied, program, usersKind, batchLen, users, response, email, password, prepKept,
                   quitCalls>>

\* prep_handler.py:292-297
prep_login ==
    /\ program = "prep"
    /\ UNCHANGED <<fnVars, installCalls>>
    /\ pc = "prep_login"
    /\ \E ok \in BOOLEAN, quitRaises \in BOOLEAN :
         /\ Mark(ok /\ ~quitRaises)
         /\ stepResults' = Append(stepResults, ok)
         /\ IF ok
            THEN /\ ~quitRaises
                 /\ calls' = Append(calls, "login")
                 /\ pc' = "prep_setup"
                 /\ UNCHANGED <<results, quitCalls>>
            ELSE /\ results' =
                      PrepQuit(Append(results,
                                      PrepFail(email, <<"Login failed: ">> \o ExcText)),
                               quitRaises)
                 /\ quitCalls' = quitCalls \cup {driver}
                 /\ calls' = calls \o <<"login">> \o
                               (IF quitRaises THEN <<"driver.quit", "driver.quit">>
                                ELSE <<"driver.quit">>)
                 /\ pc' = "prep_loop"
    /\ UNCHANGED <<varied, program, usersKind, batchLen, users, response, email, password, prepKept, driver,
                   nextSid, handed, gcdCalls>>

\* prep_handler.py:299-304
prep_setup ==
    /\ program = "prep"
    /\ UNCHANGED <<fnVars, installCalls>>
    /\ pc = "prep_setup"
    /\ \E ok \in BOOLEAN, quitRaises \in BOOLEAN :
         /\ Mark(ok /\ ~quitRaises)
         /\ stepResults' = Append(stepResults, ok)
         /\ IF ok
            THEN /\ ~quitRaises
                 /\ calls' = Append(calls, "run_gcloud_setup")
                 /\ pc' = "prep_resources"
                 /\ UNCHANGED <<results, quitCalls>>
            ELSE /\ results' =
                      PrepQuit(Append(results,
                                      PrepFail(email, <<"Gcloud setup error: ">>)),
                               quitRaises)
                 /\ quitCalls' = quitCalls \cup {driver}
                 /\ calls' = calls \o <<"run_gcloud_setup">> \o
                               (IF quitRaises THEN <<"driver.quit", "driver.quit">>
                                ELSE <<"driver.quit">>)
                 /\ pc' = "prep_loop"
    /\ UNCHANGED <<varied, program, usersKind, batchLen, users, response, email, password, prepKept, driver,
                   nextSid, handed, gcdCalls>>

\* prep_handler.py:306-341: resource creation, the S3 upload, driver.quit()
prep_resources ==
    /\ program = "prep"
    /\ UNCHANGED <<fnVars, installCalls>>
    /\ pc = "prep_resources"
    /\ \E created \in BOOLEAN, uploaded \in BOOLEAN, quitRaises \in BOOLEAN :
         /\ Mark(created /\ uploaded /\ ~quitRaises)
         /\ created \/ uploaded
         /\ stepResults' = stepResults \o <<created>> \o
                             (IF created THEN <<uploaded>> ELSE <<>>)
         /\ results' =
              PrepQuit(Append(results,
                              IF ~created
                              THEN PrepFail(email, <<"Gcloud command failed: ">>)
                              ELSE S3Record(email, uploaded)),
                       quitRaises)
         /\ quitCalls' = quitCalls \cup {driver}
         /\ calls' = calls \o <<"run_gcloud_resources">> \o
                       (IF created THEN <<"s3.put_object">> ELSE <<>>) \o
                       (IF quitRaises THEN <<"driver.quit", "driver.quit">>
                        ELSE <<"driver.quit">>)
    /\ pc' = "prep_loop"
    /\ UNCHANGED <<varied, program, usersKind, batchLen, users, response, email, password, prepKept, driver,
                   nextSid, handed, gcdCalls>>

\* ------------------------------------------- main.py handle_post_login_pages

\* A URL is the set of the substrings the function tests for that occur in it.
TargetHost == "myaccount.google.com"
Urls ==
    {{},
     {TargetHost},
     {"speedbump"},
     {"speedbump", "speedbump/gaplustos"},
     {"Verify"},
     {TargetHost, "speedbump"}}

\* what a tick records when driver.current_url raises
NoUrl == {"<raises>"}

LowerOf(m) == IF m = "Verify" THEN "verify" ELSE m

\* current_url.lower()
UrlLower(u) == {LowerOf(m) : m \in u}

\* element_exists on the page's h1: the page shows 'Verify', shows 'Review',
\* shows neither, or the lookup raises something other than TimeoutException
H1Outcomes == {"verify", "review", "none", "raise"}

\* main.py:417-519: the branch a tick takes.  "error" is the outer except
\* (main.py:572).
PageKind(u, h1) ==
    IF u = NoUrl THEN "error"
    ELSE IF TargetHost \in u THEN "myaccount"
    ELSE IF "speedbump" \in u THEN "speedbump"
    ELSE IF "verify" \in UrlLower(u) THEN "verify"
    ELSE IF h1 = "raise" THEN "error"
    ELSE IF h1 = "verify" THEN "verify"
    ELSE IF h1 = "review" THEN "review"
    ELSE "unrecognized"

\* main.py:564: the direct navigation is the tail of the unrecognized branch;
\* the speedbump, verification and review branches end in continue
NavigatesDirect(kind, att, max) == kind = "unrecognized" /\ att >= max - LastAttempts

\* One iteration of the loop: what it observed and what it did.
Tick(u, h1, found, att, max) ==
    [url |-> u,
     kind |-> PageKind(u, h1),
     clicked |-> found /\ PageKind(u, h1) \notin {"myaccount", "error"},
     navigated |-> NavigatesDirect(PageKind(u, h1), att, max)]

\* main.py:409-574: one tick.  found says whether one of the branch's buttons
\* was there to click; driver.get raising is caught at main.py:569.
pl_tick ==
    /\ program = "post_login"
    /\ pc = "pl_loop"
    /\ attempt < max_attempts
    /\ \E u \in Urls \cup {NoUrl}, h1 \in H1Outcomes, found \in BOOLEAN :
         LET t == Tick(u, h1, found, attempt, max_attempts)
         IN /\ ticks' = Append(ticks, t)
            /\ attempt' = attempt + 1
            /\ IF t.kind = "myaccount"
               THEN /\ plRet' = Ok3
                    /\ pc' = "pl_returned"
               ELSE UNCHANGED <<plRet, pc>>
    /\ UNCHANGED <<program, max_attempts, otherThanPl>>

\* main.py:577: driver.current_url is read outside every try
FinalReadRaises(raises) == raises

\* main.py:576-579: the loop is exhausted.
pl_exhausted ==
    /\ program = "post_login"
    /\ pc = "pl_loop"
    /\ attempt >= max_attempts
    /\ \E raises \in BOOLEAN :
         IF FinalReadRaises(raises)
         THEN /\ pc' = "pl_raised"
              /\ plRet' = plRet
         ELSE /\ pc' = "pl_returned"
              /\ plRet' =
                   Fail3("POST_LOGIN_TIMEOUT",
                         <<"Could not bypass intermediate pages. Last URL: ",
                           "current_url">>)
    /\ UNCHANGED <<program, max_attempts, attempt, ticks, otherThanPl>>

\* ------------------------------- main.py login_google, the TOTP challenge

SecretArg == <<"a", "b", "c", "d", " ", "2", "3", "2", "3">>

\* main.py:818-820  pyotp.TOTP(clean_secret).now(): the code is a function of
\* the cleaned secret and of the 30-second window the call falls in
TotpNow(secret, t) == [key |-> Upper(RemoveBlanks(secret)), window |-> t \div Period]

\* the seconds one submission attempt can take: the two sleeps, or longer when
\* the lookups of the submit button run into their timeouts
Elapsed == {MinAttemptGap, Period}

\* where in its 30-second window the first code is generated
StartTimes == {0, 15, 25}

\* main.py:1748 calls login_google(driver, email, password): the parameter
\* known_totp_secret keeps its default None (main.py:582), whatever the event
\* or the environment hold.  A direct caller passes what it likes.
PassedSecret(from, arg) == IF from = "process_single_user" THEN NoneSeq ELSE arg

lg_call ==
    /\ program = "login"
    /\ pc = "lg_call"
    /\ \E arg \in {NoneSeq, <<>>, SecretArg} :
         known_totp_secret' = PassedSecret(caller, arg)
    /\ pc' = "lg_challenge"
    /\ UNCHANGED <<program, otherThanLg, caller, event_totp, clock, retry,
                   submitted_codes, lgRet>>

\* main.py:789-812 and 870-875: the URL contains 'challenge/totp'.  Without
\* an OTP input the wait loop goes on; without a secret the login ends.
lg_challenge ==
    /\ program = "login"
    /\ pc = "lg_challenge"
    /\ \E input_found \in BOOLEAN :
         IF ~input_found
         THEN /\ pc' = "lg_continue"
              /\ lgRet' = lgRet
         ELSE IF ~Truthy(known_totp_secret)
         THEN /\ pc' = "lg_returned"
              /\ lgRet' = Fail3("2FA_REQUIRED", <<"2FA required but secret is unknown">>)
         ELSE /\ pc' = "lg_otp"
              /\ lgRet' = lgRet
    /\ UNCHANGED <<program, otherThanLg, caller, event_totp,
                   known_totp_secret, clock, retry, submitted_codes>>

\* main.py:815-866: one submission attempt.  The attempt ends with the URL
\* off the TOTP page ("left"), still on it ("still"), or with an exception
\* raised before the code was entered or after it was submitted.
lg_submit ==
    /\ program = "login"
    /\ pc = "lg_otp"
    /\ retry < OtpRetries
    /\ \E o \in {"left", "still", "raise_before", "raise_after"},
          d \in Elapsed \cup {0} :
         /\ d = 0 => o = "raise_before"
         /\ submitted_codes' =
              IF o = "raise_before" THEN submitted_codes
              ELSE Append(submitted_codes, TotpNow(known_totp_secret, clock))
         /\ clock' = clock + d
         /\ retry' = retry + 1
         /\ CASE o = "left" ->
                   /\ pc' = "lg_continue"
                   /\ lgRet' = lgRet
              [] o = "still" ->
                   IF retry < LastOtpRetry
                   THEN UNCHANGED <<pc, lgRet>>
                   ELSE /\ pc' = "lg_returned"
                        /\ lgRet' = Fail3("OTP_REJECTED",
                                          <<"OTP code was rejected by Google">>)
              [] OTHER ->
                   IF retry = LastOtpRetry
                   THEN /\ pc' = "lg_returned"
                        /\ lgRet' = Fail3("OTP_SUBMISSION_ERROR", ExcText)
                   ELSE UNCHANGED <<pc, lgRet>>
    /\ UNCHANGED <<program, otherThanLg, caller, event_totp,
                   known_totp_secret>>

\* --------------------------------------- main.py verify_authenticator_setup

\* the secret_key argument: an extracted secret, and a text pyotp cannot
\* decode as base32
VerifySecrets == {Cleaned(TextNominal), Cleaned(TextLong), Cleaned(TextDashed)}

\* main.py:1125-1126  pyotp.TOTP(secret_key.replace(" ", "")).now() raises for
\* a secret that is not base32; the exception ends in main.py:1216
va_generate ==
    /\ program = "verify"
    /\ pc = "va_generate"
    /\ \E secret \in VerifySecrets :
         IF IsAlnum(RemoveBlanks(secret))
         THEN /\ otp_code' = [key |-> RemoveBlanks(secret), window |-> clock \div Period]
              /\ pc' = "va_find_input"
              /\ vaRet' = vaRet
         ELSE /\ otp_code' = otp_code
              /\ pc' = "va_returned"
              /\ vaRet' = Fail3("AUTH_VERIFY_EXCEPTION", ExcText)
    /\ UNCHANGED <<program, otherThanVa, clock, otp_input, verdicts>>

\* main.py:1131-1166: the OTP input, by a dynamic div index, by a generic
\* XPath, not at all, or element_exists raising
va_find_input ==
    /\ program = "verify"
    /\ pc = "va_find_input"
    /\ \E found \in {"dynamic", "generic", "none", "raise"} :
         CASE found = "raise" ->
                /\ vaRet' = Fail3("AUTH_VERIFY_EXCEPTION", ExcText)
                /\ pc' = "va_returned"
                /\ otp_input' = otp_input
           [] found = "none" ->
                /\ vaRet' = Fail3("OTP_INPUT_NOT_FOUND", <<"OTP input field not found">>)
                /\ pc' = "va_returned"
                /\ otp_input' = otp_input
           [] OTHER ->
                /\ otp_input' = found
                /\ pc' = "va_submit"
                /\ vaRet' = vaRet
    /\ UNCHANGED <<program, otherThanVa, clock, otp_code, verdicts>>

\* main.py:1168-1214: the code is entered and submitted (a Verify button or the
\* Enter key); the page accepts or rejects it, and the function sleeps and
\* returns True without looking at the page again.  An exception while
\* entering the code ends in main.py:1216 with nothing submitted.
va_submit ==
    /\ program = "verify"
    /\ pc = "va_submit"
    /\ \E how \in {"button", "enter", "raise"} :
         IF how = "raise"
         THEN /\ vaRet' = Fail3("AUTH_VERIFY_EXCEPTION", ExcText)
              /\ verdicts' = verdicts
         ELSE \E accepted \in BOOLEAN :
                /\ verdicts' = Append(verdicts, accepted)
                /\ vaRet' = Ok3
    /\ pc' = "va_returned"
    /\ UNCHANGED <<program, otherThanVa, clock, otp_code, otp_input>>

\* ------------------------------------------- main.py generate_app_password

\* Texts the dialog can show where the app password is looked for.
PwPlain == <<"a", "b", "c", "d", "a", "b", "c", "d",
             "a", "b", "c", "d", "a", "b", "c", "d">>
PwSpaced == <<"a", "b", "c", "d", " ", "a", "b", "c", "d", " ",
              "a", "b", "c", "d", " ", "a", "b", "c", "d">>
PwFewChars == <<"a", "b", "-", "c", "d", "-", "a", "b", "-", "c", "d", "-",
                "a", "b", "-", "c", "d">>
PwLong == PwPlain \o <<"a", "b", "c">>
PwTooShort == <<"a", "b", "c", "d", "-", "a", "b", "c", "d">>
PwSymbols == <<"a", "b", "!", "d", "-", "a", "b", "c", "d", "-",
               "a", "b", "c", "d", "-", "a", "b", "c", "d">>
AppPwTexts ==
    {NoneSeq, AppPwNominal, PwPlain, PwSpaced, PwFewChars, PwLong, PwTooShort,
     PwSymbols}

\* str.count('-')
Dashes(s) == Cardinality({i \in 1..Len(s) : s[i] = "-"})

\* main.py:1498  the 16 characters regrouped in blocks of 4
Regroup(s) ==
    SubSeq(s, 1, 4) \o <<"-">> \o SubSeq(s, 5, 8) \o <<"-">> \o
    SubSeq(s, 9, 12) \o <<"-">> \o SubSeq(s, 13, 16)

\* main.py:1478-1505: the password read from the spans of a container, or
\* NoneSeq.  text is the joined text of the spans, NoneSeq when the container
\* is not there.
SpanPassword(text) ==
    LET clean == RemoveBlanks(text)
        grouped == IF Len(clean) = AppPwLen /\ Dashes(clean) = 0
                   THEN Regroup(clean) ELSE clean
    IN IF text = NoneSeq \/ clean = <<>> THEN NoneSeq
       ELSE IF Len(grouped) >= AppPwLen
               /\ (Dashes(grouped) >= MinDashes \/ Len(grouped) = DashedLen)
       THEN grouped
       ELSE NoneSeq

\* main.py:1529-1540: the password read from the text of an element
PriorityPassword(text) ==
    LET potential == RemoveBlanks(Strip(text))
    IN IF text # NoneSeq /\ Len(potential) >= AppPwLen
          /\ Dashes(potential) >= MinDashes
       THEN potential
       ELSE NoneSeq

\* main.py:1466-1543: spans first, the element texts as fallback
ExtractAppPassword(page) ==
    IF Truthy(SpanPassword(page.spans)) THEN SpanPassword(page.spans)
    ELSE PriorityPassword(page.priority)

\* main.py:1322: the navigation to the app-passwords page
ap_navigate ==
    /\ program = "app_password"
    /\ pc = "ap_navigate"
    /\ \E raises \in BOOLEAN :
         IF raises
         THEN /\ apRet' = Fail4("APP_PASSWORD_EXCEPTION", ExcText)
              /\ pc' = "ap_returned"
         ELSE /\ apRet' = apRet
              /\ pc' = "ap_loop"
    /\ UNCHANGED <<program, otherThanAp, ap_attempt, ap_log>>

\* main.py:1548-1554 and 1559-1562: a TimeoutException of an attempt that is
\* not the last one is followed by a refresh and the next attempt; the last
\* attempt's is re-raised and ends in the outer except.
ApTimeout(entry) ==
    /\ ap_attempt' = ap_attempt + 1
    /\ IF ap_attempt < MaxRetries - 1
       THEN /\ ap_log' = Append(ap_log, [entry EXCEPT !.refreshed = TRUE])
            /\ UNCHANGED <<pc, apRet>>
       ELSE /\ ap_log' = Append(ap_log, entry)
            /\ apRet' = Fail4("APP_PASSWORD_EXCEPTION", ExcText)
            /\ pc' = "ap_returned"

\* main.py:1337-1546: one attempt: locate the app-name field, fill it, click
\* Generate, wait for the dialog, extract the password.
ap_try ==
    /\ program = "app_password"
    /\ pc = "ap_loop"
    /\ ap_attempt < MaxRetries
    /\ \E o \in {"no_field", "fill_raises", "no_generate", "no_dialog", "extract"},
          spans \in AppPwTexts, priority \in AppPwTexts :
         LET page == [spans |-> spans, priority |-> priority]
             did(f, c, r) == [filled |-> f, clicked |-> c, refreshed |-> r]
         IN /\ o # "extract" => page = [spans |-> NoneSeq, priority |-> NoneSeq]
            /\ CASE o = "no_field" -> ApTimeout(did(FALSE, FALSE, TRUE))
                 [] o = "fill_raises" ->
                      /\ ap_attempt' = ap_attempt + 1
                      /\ ap_log' = Append(ap_log, did(FALSE, FALSE, FALSE))
                      /\ apRet' = Fail4("APP_PASSWORD_EXCEPTION", ExcText)
                      /\ pc' = "ap_returned"
                 [] o = "no_generate" -> ApTimeout(did(TRUE, FALSE, FALSE))
                 [] o = "no_dialog" -> ApTimeout(did(TRUE, TRUE, FALSE))
                 [] OTHER ->
                      IF Truthy(ExtractAppPassword(page))
                      THEN /\ ap_attempt' = ap_attempt + 1
                           /\ ap_log' = Append(ap_log, did(TRUE, TRUE, FALSE))
                           /\ apRet' = Ok4(ExtractAppPassword(page))
                           /\ pc' = "ap_returned"
                      ELSE ApTimeout(did(TRUE, TRUE, FALSE))
    /\ UNCHANGED <<program, otherThanAp>>

\* ------------------------------------- main.py get_chrome_driver, stepwise

\* main.py:96-103
ChromePaths ==
    <<"/opt/chrome/chrome", "/opt/chrome/headless-chromium",
      "/opt/chrome/chrome-wrapper", "/usr/bin/chromium",
      "/usr/bin/chromium-browser", "/usr/bin/google-chrome">>

\* main.py:126-130
ChromedriverPaths ==
    <<"/opt/chromedriver", "/usr/bin/chromedriver", "/usr/local/bin/chromedriver">>

\* what 'which chrome' and 'which chromedriver' print when they find something
WhichChrome == "/usr/local/bin/chrome"
WhichChromedriver == "/usr/local/sbin/chromedriver"

Range(seq) == {seq[i] : i \in 1..Len(seq)}

\* the environments: the executables that exist
Filesystems ==
    {c \cup d : c \in SUBSET (Range(ChromePaths) \cup {WhichChrome}),
                d \in SUBSET (Range(ChromedriverPaths) \cup {WhichChromedriver})}

\* main.py:105-118, 132-144: the first listed path that is an executable file,
\* else what 'which' found, else None
Locate(paths, viaWhich, files) ==
    IF \E i \in 1..Len(paths) : paths[i] \in files
    THEN paths[CHOOSE i \in 1..Len(paths) :
                 /\ paths[i] \in files
                 /\ \A j \in 1..(i - 1) : paths[j] \notin files]
    ELSE IF viaWhich \in files THEN viaWhich
    ELSE NoneStr

\* main.py:84-147
gd_locate ==
    /\ program = "driver"
    /\ pc = "gd_locate"
    /\ LET cb == Locate(ChromePaths, WhichChrome, gd_files)
           cd == Locate(ChromedriverPaths, WhichChromedriver, gd_files)
       IN IF cb = NoneStr
          THEN /\ gdRet' = [driver |-> "none",
                            raised |-> <<"Chrome binary not found in Lambda environment">>]
               /\ pc' = "gd_returned"
               /\ UNCHANGED <<chrome_binary, chromedriver_path>>
          ELSE /\ chrome_binary' = cb
               /\ IF cd = NoneStr
                  THEN /\ gdRet' = [driver |-> "none",
                                    raised |-> <<"ChromeDriver not found in Lambda environment">>]
                       /\ pc' = "gd_returned"
                       /\ UNCHANGED chromedriver_path
                  ELSE /\ chromedriver_path' = cd
                       /\ pc' = "gd_first"
                       /\ UNCHANGED gdRet
    /\ UNCHANGED <<program, otherThanGd, gd_files, ctor_log>>

NeedsRetryAlways(o) == TRUE
\* main.py:184-226: the except clause covers webdriver.Chrome and
\* set_page_load_timeout; an exception of execute_cdp_cmd is caught at 220
NeedsRetry(o) == o \in {"ctor_raises", "init_raises"}

\* main.py:184-226: the first construction, with the full option set.  The
\* except clause at 226 calls no driver.quit(): quit stays FALSE.
gd_first ==
    /\ program = "driver"
    /\ pc = "gd_first"
    /\ \E o \in {"ok", "cdp_raises", "ctor_raises", "init_raises"} :
         /\ ctor_log' = Append(ctor_log,
                               [options |-> "full",
                                constructed |-> o # "ctor_raises",
                                initialised |-> o \in {"ok", "cdp_raises"},
                                quit |-> FALSE])
         /\ IF NeedsRetry(o)
            THEN /\ pc' = "gd_retry"
                 /\ UNCHANGED gdRet
            ELSE /\ gdRet' = [driver |-> "full", raised |-> NoneSeq]
                 /\ pc' = "gd_returned"
    /\ UNCHANGED <<program, otherThanGd, gd_files, chrome_binary, chromedriver_path>>

\* main.py:231-256: the retry with the minimal option set
gd_retry ==
    /\ program = "driver"
    /\ pc = "gd_retry"
    /\ \E raises \in BOOLEAN :
         /\ ctor_log' = Append(ctor_log,
                               [options |-> "minimal", constructed |-> ~raises,
                                initialised |-> ~raises, quit |-> FALSE])
         /\ gdRet' = IF raises
                     THEN [driver |-> "none",
                           raised |-> <<"Chrome driver initialization failed: ", "e2">>]
                     ELSE [driver |-> "minimal", raised |-> NoneSeq]
         /\ pc' = "gd_returned"
    /\ UNCHANGED <<program, otherThanGd, gd_files, chrome_binary, chromedriver_path>>

\* --------------------------------- main.py enable_two_step_verification

\* main.py:1241, 1253, 1264-1268: the 'Turn on' locators
OriginalXpath == "original"
FallbackXpath == "fallback"
GenericXpaths == <<"generic_1", "generic_2", "generic_3">>

\* the locators of the function: 'Turn off', the 'Turn on' ones, 'Skip'
TwoSvLocators ==
    {"turn_off", OriginalXpath, FallbackXpath, "skip"} \cup Range(GenericXpaths)

\* what driver.execute_script does on a click
ClickOutcomes == {"ok", "raises_timeout", "raises"}

\* main.py:274-283: the element, or None after the timeout; nothing is raised
wait_for_clickable_xpath(page, xpath) == xpath \in page

\* main.py:1269-1279: the generic patterns in list order, up to the first
\* that exists and is clicked; a click that raises is skipped
RECURSIVE Generic(_, _, _)
Generic(page, i, clickOk) ==
    IF i > Len(GenericXpaths) THEN [tried |-> <<>>, clicked |-> FALSE]
    ELSE IF GenericXpaths[i] \in page /\ clickOk
    THEN [tried |-> <<GenericXpaths[i]>>, clicked |-> TRUE]
    ELSE LET rest == Generic(page, i + 1, clickOk)
         IN [tried |-> <<GenericXpaths[i]>> \o rest.tried, clicked |-> rest.clicked]

\* main.py:1238-1280: the 'Turn on' part.  c1 and c2 are what the click on
\* the original and on the fallback button does, cg whether a generic click
\* works.  The except clauses are entered by a TimeoutException only, which
\* wait_for_clickable_xpath never raises.
TurnOn(page, c1, c2, cg) ==
    IF ~wait_for_clickable_xpath(page, OriginalXpath)
    THEN [tried |-> <<OriginalXpath>>, clicked |-> FALSE, raised |-> FALSE]
    ELSE IF c1 = "ok"
    THEN [tried |-> <<OriginalXpath>>, clicked |-> TRUE, raised |-> FALSE]
    ELSE IF c1 = "raises"
    THEN [tried |-> <<OriginalXpath>>, clicked |-> FALSE, raised |-> TRUE]
    ELSE IF ~wait_for_clickable_xpath(page, FallbackXpath)
    THEN [tried |-> <<OriginalXpath, FallbackXpath>>, clicked |-> FALSE,
          raised |-> FALSE]
    ELSE IF c2 = "ok"
    THEN [tried |-> <<OriginalXpath, FallbackXpath>>, clicked |-> TRUE,
          raised |-> FALSE]
    ELSE IF c2 = "raises"
    THEN [tried |-> <<OriginalXpath, FallbackXpath>>, clicked |-> FALSE,
          raised |-> TRUE]
    ELSE LET g == Generic(page, 1, cg)
         IN [tried |-> <<OriginalXpath, FallbackXpath>> \o g.tried,
             clicked |-> g.clicked, raised |-> FALSE]

\* main.py:1230-1237: the navigation and the 'Turn off' test
tv_navigate ==
    /\ program = "twosv"
    /\ pc = "tv_navigate"
    /\ \E nav \in {"ok", "timeout", "raises"} :
         IF nav = "timeout"
         THEN /\ tvRet' = Fail3("2SV_TIMEOUT", ExcText)
              /\ pc' = "tv_returned"
         ELSE IF nav = "raises"
         THEN /\ tvRet' = Fail3("2SV_EXCEPTION", ExcText)
              /\ pc' = "tv_returned"
         ELSE IF "turn_off" \in tv_page
         THEN /\ tvRet' = Ok3
              /\ pc' = "tv_returned"
         ELSE /\ tvRet' = tvRet
              /\ pc' = "tv_turn_on"
    /\ UNCHANGED <<program, otherThanTv, tv_page, tv_tried, turn_on_clicked>>

\* main.py:1238-1280
tv_turn_on ==
    /\ program = "twosv"
    /\ pc = "tv_turn_on"
    /\ \E c1 \in ClickOutcomes, c2 \in ClickOutcomes, cg \in BOOLEAN :
         LET r == TurnOn(tv_page, c1, c2, cg)
         IN /\ tv_tried' = r.tried
            /\ turn_on_clicked' = r.clicked
            /\ IF r.raised
               THEN /\ tvRet' = Fail3("2SV_EXCEPTION", ExcText)
                    /\ pc' = "tv_returned"
               ELSE /\ tvRet' = tvRet
                    /\ pc' = "tv_skip"
    /\ UNCHANGED <<program, otherThanTv, tv_page>>

\* main.py:1282-1293: the 'Skip' link and the return
tv_skip ==
    /\ program = "twosv"
    /\ pc = "tv_skip"
    /\ \E c \in ClickOutcomes :
         /\ tvRet' = IF wait_for_clickable_xpath(tv_page, "skip") /\ c = "raises"
                     THEN Fail3("2SV_EXCEPTION", ExcText)
                     ELSE Ok3
    /\ pc' = "tv_returned"
    /\ UNCHANGED <<program, otherThanTv, tv_page, tv_tried, turn_on_clicked>>

\* ------------------------------------ main.py login_google, the two forms

\* main.py:616-620, 649-653: the Next-button locators of a form, in list
\* order: any element with the id, the button with the id, the button around
\* a 'Next' span
NextLocators == <<"any_with_id", "button_with_id", "button_around_next">>

\* What a form shows: the locators that find an element, and whether the
\* element with the id becomes clickable.
FormPages ==
    {[present |-> ps, clickable |-> c] :
        ps \in SUBSET {NextLocators[i] : i \in 1..Len(NextLocators)},
        c \in BOOLEAN}

\* a button with the id is an element with the id; a clickable one is present
FormPossible(f) ==
    /\ "button_with_id" \in f.present => "any_with_id" \in f.present
    /\ f.clickable => "any_with_id" \in f.present

NoForms == [identifier |-> [present |-> {}, clickable |-> FALSE],
            password |-> [present |-> {}, clickable |-> FALSE],
            password_input |-> FALSE]

\* main.py:307-318 find_element_with_fallback: an element when one of the
\* locators finds one
find_element_with_fallback(f, xpaths) ==
    \E i \in 1..Len(xpaths) : xpaths[i] \in f.present

\* main.py:285-291 click_xpath: clicks when the element becomes clickable,
\* returns False otherwise
click_xpath(f, xpath) == xpath \in f.present /\ f.clickable

\* main.py:621-626, 654-658: what is done to submit a form; the value
\* click_xpath returns is not read
Submit(f, name) ==
    IF find_element_with_fallback(f, NextLocators)
    THEN IF click_xpath(f, NextLocators[1])
         THEN <<[act |-> "click", form |-> name]>>
         ELSE <<>>
    ELSE <<[act |-> "enter", form |-> name]>>

\* main.py:607-627: the identifier is typed and the form submitted
lf_identifier ==
    /\ program = "login_form"
    /\ pc = "lf_identifier"
    /\ \E clickRaises \in BOOLEAN :
         LET did == Submit(form_page.identifier, "identifier")
         IN /\ form_log' = form_log \o <<[act |-> "type", form |-> "identifier"]>> \o did
            /\ clickRaises => (did # <<>> /\ did[1].act = "click")
            /\ pc' = IF clickRaises THEN "lf_returned" ELSE "lf_password"
    /\ UNCHANGED <<program, otherThanLf, form_page>>

\* main.py:629-660: the password is typed and the form submitted
lf_password ==
    /\ program = "login_form"
    /\ pc = "lf_password"
    /\ IF ~form_page.password_input
       THEN /\ pc' = "lf_returned"
            /\ form_log' = form_log
       ELSE \E clickRaises \in BOOLEAN :
              LET did == Submit(form_page.password, "password")
              IN /\ form_log' = form_log \o <<[act |-> "type", form |-> "password"]>> \o did
                 /\ clickRaises => (did # <<>> /\ did[1].act = "click")
                 /\ pc' = IF clickRaises THEN "lf_returned" ELSE "lf_wait"
    /\ UNCHANGED <<program, otherThanLf, form_page>>

\* --------------------------------------- main.py upload_secret_to_sftp

NoSftpEnv == [user |-> FALSE, password |-> FALSE, dir_exists |-> FALSE,
              alias_exists |-> FALSE, email |-> <<>>]

\* an email with and one without the '@'
SftpEmails == {<<"a", "@", "x">>, <<"a", "x">>}

NoPair == [sftp_host |-> NoneStr, remote_path |-> NoneSeq]

\* main.py:342  email.split("@")[0] if "@" in email else email
Alias(e) ==
    IF \E i \in 1..Len(e) : e[i] = "@"
    THEN SubSeq(e, 1, (CHOOSE i \in 1..Len(e) :
                         e[i] = "@" /\ \A j \in 1..(i - 1) : e[j] # "@") - 1)
    ELSE e

\* main.py:362, 369-370: remote_dir/alias/email_authenticator_secret_key.txt
RemotePath(e) ==
    <<"remote_dir", "/">> \o Alias(e) \o <<"/">> \o e \o
    <<"_authenticator_secret_key.txt">>

\* main.py:331-335: whether SECRET_SFTP_USER and SECRET_SFTP_PASSWORD are
\* set, and what the server already has
SftpEnvs ==
    [user : BOOLEAN, password : BOOLEAN, dir_exists : BOOLEAN,
     alias_exists : BOOLEAN, email : SftpEmails]

\* main.py:383-386: the except clause logs and returns (None, None); it closes
\* nothing
SftpExcept ==
    /\ sfRet' = NoPair
    /\ pc' = "sf_returned"

\* main.py:337-349: the credentials test, the transport, the client
sf_connect ==
    /\ program = "sftp"
    /\ pc = "sf_connect"
    /\ IF ~(sf_env.user /\ sf_env.password)
       THEN /\ sfRet' = NoPair
            /\ pc' = "sf_returned"
            /\ UNCHANGED <<transport, sftp, sf_log>>
       ELSE \E o \in {"transport_raises", "connect_raises", "ok"} :
              /\ transport' = CASE o = "transport_raises" -> "none"
                                [] o = "connect_raises" -> "created"
                                [] OTHER -> "connected"
              /\ sftp' = IF o = "ok" THEN "open" ELSE "none"
              /\ sf_log' = IF o = "ok" THEN Append(sf_log, "connect") ELSE sf_log
              /\ IF o = "ok"
                 THEN /\ pc' = "sf_chdir"
                      /\ sfRet' = sfRet
                 ELSE SftpExcept
    /\ UNCHANGED <<program, otherThanSf, sf_env>>

\* main.py:351-359: the remote directory; a failed mkdir is only logged
sf_chdir ==
    /\ program = "sftp"
    /\ pc = "sf_chdir"
    /\ \E o \in {"ok", "mkdir_raises", "connection_lost"} :
         /\ o = "mkdir_raises" => ~sf_env.dir_exists
         /\ sf_log' = sf_log \o
                        (IF sf_env.dir_exists \/ o = "connection_lost"
                         THEN <<"chdir">>
                         ELSE IF o = "ok" THEN <<"chdir", "mkdir", "chdir">>
                         ELSE <<"chdir", "mkdir">>)
         /\ IF o = "connection_lost"
            THEN SftpExcept
            ELSE /\ pc' = "sf_alias"
                 /\ sfRet' = sfRet
    /\ UNCHANGED <<program, otherThanSf, sf_env, transport, sftp>>

\* main.py:361-366: the alias folder; an IOError of mkdir is passed over
sf_alias ==
    /\ program = "sftp"
    /\ pc = "sf_alias"
    /\ \E o \in {"ok", "io_error", "connection_lost"} :
         /\ o = "ok" => ~sf_env.alias_exists
         /\ sf_log' = Append(sf_log, "mkdir_alias")
         /\ IF o = "connection_lost"
            THEN SftpExcept
            ELSE /\ pc' = "sf_write"
                 /\ sfRet' = sfRet
    /\ UNCHANGED <<program, otherThanSf, sf_env, transport, sftp>>

\* main.py:368-381: the file is written, the client and the transport are
\* closed, (host, remote_path) is returned
sf_write ==
    /\ program = "sftp"
    /\ pc = "sf_write"
    /\ \E o \in {"ok", "open_raises", "write_raises"} :
         /\ sf_log' = sf_log \o
                        (CASE o = "open_raises" -> <<"open">>
                           [] o = "write_raises" -> <<"open", "write">>
                           [] OTHER -> <<"open", "write", "sftp.close",
                                         "transport.close">>)
         /\ IF o = "ok"
            THEN /\ sftp' = "closed"
                 /\ transport' = "closed"
                 /\ sfRet' = [sftp_host |-> SftpHost,
                               remote_path |-> RemotePath(sf_env.email)]
                 /\ pc' = "sf_returned"
            ELSE /\ SftpExcept
                 /\ UNCHANGED <<sftp, transport>>
    /\ UNCHANGED <<program, otherThanSf, sf_env>>

\* ------------------------------ main.py login_google, the polling loop

\* main.py:681  the substrings that mean 'logged in'
SuccessDomains == {"myaccount.google.com", "mail.google.com"}

\* main.py:676, 686, 728, 738: the substrings of the pages in between
InterstitialMarkers == {"idvreenable", "speedbump", "twosvrequired", "challenge"}

\* A URL is the set of these substrings it contains; a continue= parameter
\* makes a sign-in URL contain a success domain.
PollUrls == SUBSET (SuccessDomains \cup InterstitialMarkers)

\* main.py:738-875: what the challenge branch does: it leaves the function
\* with one of its error codes or goes to the next tick
ChallengeOutcomes ==
    {"continue", "2FA_REQUIRED", "OTP_REJECTED", "OTP_SUBMISSION_ERROR"}

\* main.py:666-875: the tests of one tick, in the order of the code
PollTick(url, ch) ==
    IF "idvreenable" \in url
    THEN Fail3("ID_VERIFICATION_REQUIRED", <<"Manual ID verification required">>)
    ELSE IF url \cap SuccessDomains # {}
    THEN Ok3
    ELSE IF "speedbump" \in url \/ "twosvrequired" \in url
    THEN NoTuple
    ELSE IF "challenge" \in url /\ ch # "continue"
    THEN Fail3(ch, ExcText)
    ELSE NoTuple

\* main.py:668-880: one tick of the loop
lp_tick ==
    /\ program = "login_poll"
    /\ pc = "lp_loop"
    /\ wait_attempt < MaxWaitAttempts
    /\ wait_attempt' = wait_attempt + 1
    /\ \E raises \in BOOLEAN, url \in PollUrls, ch \in ChallengeOutcomes :
         IF raises
         THEN /\ lpRet' = Fail3("driver_crashed", ExcText)
              /\ pc' = "lp_returned"
              /\ current_url' = current_url
         ELSE /\ current_url' = url
              /\ lpRet' = PollTick(url, ch)
              /\ pc' = IF PollTick(url, ch) = NoTuple THEN "lp_loop"
                       ELSE "lp_returned"
    /\ UNCHANGED <<program, otherThanLp>>

\* main.py:881-884: the loop ran out
lp_timeout ==
    /\ program = "login_poll"
    /\ pc = "lp_loop"
    /\ wait_attempt = MaxWaitAttempts
    /\ lpRet' = Fail3("LOGIN_TIMEOUT", <<"Login timed out after ", "90", " seconds">>)
    /\ pc' = "lp_returned"
    /\ UNCHANGED <<program, otherThanLp, wait_attempt, current_url>>

\* ------------------------------------- prep_handler.py run_gcloud_setup

GsFail(msg) == [success |-> FALSE, message |-> msg]

\* how long a readline of the subprocess output blocks, in seconds
ReadDelays == {1, 5, 10}

\* prep_handler.py:488-489: the except clause returns; it neither kills nor
\* waits for the subprocess
GsExcept ==
    /\ gsRet' = GsFail(<<"Gcloud setup error: ">> \o ExcText)
    /\ pc' = "gs_returned"

\* prep_handler.py:426-433
gs_popen ==
    /\ program = "gcloud_setup"
    /\ pc = "gs_popen"
    /\ \E raises \in BOOLEAN :
         IF raises
         THEN /\ GsExcept
              /\ process' = process
         ELSE /\ process' = "running"
              /\ pc' = "gs_read"
              /\ gsRet' = gsRet
    /\ UNCHANGED <<program, otherThanGs, auth_url, code, gs_elapsed>>

\* prep_handler.py:437-445: one line of the output is read
gs_readline ==
    /\ program = "gcloud_setup"
    /\ pc = "gs_read"
    /\ gs_elapsed < ReadWindow
    /\ \E dt \in ReadDelays, line \in {"text", "url", "eof"} :
         /\ gs_elapsed' = gs_elapsed + dt
         /\ auth_url' = IF line = "url" THEN "https://accounts.google.com/o" ELSE auth_url
         /\ process' = IF line = "eof" THEN "exited" ELSE process
         /\ pc' = IF line = "text" THEN "gs_read" ELSE "gs_found"
    /\ UNCHANGED <<program, otherThanGs, code, gsRet>>

\* prep_handler.py:437: the 30 seconds are over
gs_read_timeout ==
    /\ program = "gcloud_setup"
    /\ pc = "gs_read"
    /\ gs_elapsed >= ReadWindow
    /\ pc' = "gs_found"
    /\ UNCHANGED <<program, otherThanGs, gsVars>>

\* process.kill() on a subprocess that is still running
Kill(p) == IF p = "running" THEN "killed" ELSE p

\* prep_handler.py:447-453: no URL, or the navigation to it
gs_navigate ==
    /\ program = "gcloud_setup"
    /\ pc = "gs_found"
    /\ IF auth_url = NoneStr
       THEN /\ process' = Kill(process)
            /\ gsRet' = GsFail(<<"Could not find auth URL in gcloud output">>)
            /\ pc' = "gs_returned"
       ELSE \E raises \in BOOLEAN :
              /\ process' = process
              /\ IF raises
                 THEN GsExcept
                 ELSE /\ pc' = "gs_code"
                      /\ gsRet' = gsRet
    /\ UNCHANGED <<program, otherThanGs, auth_url, code, gs_elapsed>>

\* prep_handler.py:455-476: Allow (an exception of the click is logged), the
\* textarea with the code (an exception leaves code None)
gs_code ==
    /\ program = "gcloud_setup"
    /\ pc = "gs_code"
    /\ \E value \in {NoneStr, "", "4/0Ab"} :
         /\ code' = value
         /\ IF value \in {NoneStr, ""}
            THEN /\ process' = Kill(process)
                 /\ gsRet' = GsFail(<<"Could not retrieve verification code from page">>)
                 /\ pc' = "gs_returned"
            ELSE /\ pc' = "gs_send"
                 /\ UNCHANGED <<process, gsRet>>
    /\ UNCHANGED <<program, otherThanGs, auth_url, gs_elapsed>>

\* prep_handler.py:478-486: the code is written to stdin, the exit is awaited
gs_send ==
    /\ program = "gcloud_setup"
    /\ pc = "gs_send"
    /\ \E o \in {"write_raises", "wait_timeout", "exit_0", "exit_1"} :
         CASE o = "write_raises" ->
                /\ process' = "exited"
                /\ GsExcept
           [] o = "wait_timeout" ->
                /\ process' = process
                /\ GsExcept
           [] o = "exit_0" ->
                /\ process' = "exited"
                /\ gsRet' = [success |-> TRUE,
                             message |-> <<"Gcloud authenticated successfully">>]
                /\ pc' = "gs_returned"
           [] OTHER ->
                /\ process' = "exited"
                /\ gsRet' = GsFail(<<"Gcloud exited with code ", "1">>)
                /\ pc' = "gs_returned"
    /\ UNCHANGED <<program, otherThanGs, auth_url, code, gs_elapsed>>

\* ------------------------------------------------------------ specification

\* The lengths of event["users"] explored: every length up to one entry past
\* the varied ones and, for main.py's handler, its cap and one more than it.
BatchLens(prog) ==
    (0..(MaxVaried + 1)) \cup
    (IF prog = "main" THEN {MaxUsers, MaxUsers + 1} ELSE {})

Init ==
    /\ program \in {"main", "prep"}
    /\ usersKind \in UsersKinds
    /\ batchLen \in BatchLens(program)
    /\ usersKind # "list" => batchLen = 0
    /\ max_attempts = 0
    /\ LoginIdle
    /\ pc = "start"
    /\ gd_files = {}
    /\ tv_page = {}
    /\ form_page = NoForms
    /\ sf_env = NoSftpEnv
    /\ InitCommon

Next ==
    \/ handler
    \/ batch_next
    \/ batch_finish
    \/ psu_driver_init
    \/ psu_login
    \/ psu_authenticator_setup
    \/ psu_sftp_upload
    \/ psu_verify_authenticator
    \/ psu_enable_2sv
    \/ psu_app_password
    \/ psu_dynamodb_save
    \/ psu_finally
    \/ psu_return
    \/ prep_start
    \/ prep_next
    \/ prep_finish
    \/ prep_driver
    \/ prep_login
    \/ prep_setup
    \/ prep_resources

Spec == Init /\ [][Next]_vars

\* handle_post_login_pages called with max_attempts in 0..MaxAttempts.
InitPostLogin ==
    /\ program = "post_login"
    /\ usersKind = "absent"
    /\ batchLen = 0
    /\ max_attempts \in 0..MaxAttempts
    /\ LoginIdle
    /\ pc = "pl_loop"
    /\ gd_files = {}
    /\ tv_page = {}
    /\ form_page = NoForms
    /\ sf_env = NoSftpEnv
    /\ InitCommon

NextPostLogin ==
    \/ pl_tick
    \/ pl_exhausted

SpecPostLogin == InitPostLogin /\ [][NextPostLogin]_vars

\* login_google reaching a TOTP challenge, called by process_single_user for
\* an invocation with or without a known secret, or called directly.
InitLogin ==
    /\ program = "login"
    /\ usersKind = "absent"
    /\ batchLen = 0
    /\ max_attempts = 0
    /\ caller \in {"process_single_user", "direct"}
    /\ event_totp \in {NoneSeq, SecretArg}
    /\ known_totp_secret = NoneSeq
    /\ clock \in StartTimes
    /\ pc = "lg_call"
    /\ gd_files = {}
    /\ tv_page = {}
    /\ form_page = NoForms
    /\ sf_env = NoSftpEnv
    /\ InitCommon

NextLogin ==
    \/ lg_call
    \/ lg_challenge
    \/ lg_submit

SpecLogin == InitLogin /\ [][NextLogin]_vars

\* verify_authenticator_setup called at any second of a TOTP window.
InitVerify ==
    /\ program = "verify"
    /\ usersKind = "absent"
    /\ batchLen = 0
    /\ max_attempts = 0
    /\ caller = "none"
    /\ event_totp = NoneSeq
    /\ known_totp_secret = NoneSeq
    /\ clock \in 0..(Period - 1)
    /\ pc = "va_generate"
    /\ gd_files = {}
    /\ tv_page = {}
    /\ form_page = NoForms
    /\ sf_env = NoSftpEnv
    /\ InitCommon

NextVerify ==
    \/ va_generate
    \/ va_find_input
    \/ va_submit

SpecVerify == InitVerify /\ [][NextVerify]_vars

\* generate_app_password called once.
InitAppPassword ==
    /\ program = "app_password"
    /\ usersKind = "absent"
    /\ batchLen = 0
    /\ max_attempts = 0
    /\ LoginIdle
    /\ pc = "ap_navigate"
    /\ gd_files = {}
    /\ tv_page = {}
    /\ form_page = NoForms
    /\ sf_env = NoSftpEnv
    /\ InitCommon

NextAppPassword ==
    \/ ap_navigate
    \/ ap_try

SpecAppPassword == InitAppPassword /\ [][NextAppPassword]_vars

\* get_chrome_driver called once, in any environment.
InitDriver ==
    /\ program = "driver"
    /\ usersKind = "absent"
    /\ batchLen = 0
    /\ max_attempts = 0
    /\ LoginIdle
    /\ pc = "gd_locate"
    /\ gd_files \in Filesystems
    /\ tv_page = {}
    /\ form_page = NoForms
    /\ sf_env = NoSftpEnv
    /\ InitCommon

NextDriver ==
    \/ gd_locate
    \/ gd_first
    \/ gd_retry

SpecDriver == InitDriver /\ [][NextDriver]_vars

\* enable_two_step_verification called once, on any page.
InitTwoSv ==
    /\ program = "twosv"
    /\ usersKind = "absent"
    /\ batchLen = 0
    /\ max_attempts = 0
    /\ LoginIdle
    /\ pc = "tv_navigate"
    /\ gd_files = {}
    /\ tv_page \in SUBSET TwoSvLocators
    /\ form_page = NoForms
    /\ sf_env = NoSftpEnv
    /\ InitCommon

NextTwoSv ==
    \/ tv_navigate
    \/ tv_turn_on
    \/ tv_skip

SpecTwoSv == InitTwoSv /\ [][NextTwoSv]_vars

\* login_google up to the polling loop, on any pair of forms.
InitLoginForm ==
    /\ program = "login_form"
    /\ usersKind = "absent"
    /\ batchLen = 0
    /\ max_attempts = 0
    /\ LoginIdle
    /\ pc = "lf_identifier"
    /\ gd_files = {}
    /\ tv_page = {}
    /\ \E i \in FormPages, p \in FormPages, pi \in BOOLEAN :
         /\ FormPossible(i)
         /\ FormPossible(p)
         /\ form_page = [identifier |-> i, password |-> p, password_input |-> pi]
    /\ sf_env = NoSftpEnv
    /\ InitCommon

NextLoginForm ==
    \/ lf_identifier
    \/ lf_password

SpecLoginForm == InitLoginForm /\ [][NextLoginForm]_vars

\* upload_secret_to_sftp called once, in any environment.
InitSftp ==
    /\ program = "sftp"
    /\ usersKind = "absent"
    /\ batchLen = 0
    /\ max_attempts = 0
    /\ LoginIdle
    /\ pc = "sf_connect"
    /\ gd_files = {}
    /\ tv_page = {}
    /\ form_page = NoForms
    /\ sf_env \in SftpEnvs
    /\ InitCommon

NextSftp ==
    \/ sf_connect
    \/ sf_chdir
    \/ sf_alias
    \/ sf_write

SpecSftp == InitSftp /\ [][NextSftp]_vars

\* the polling loop of login_google, after the password was submitted.
InitLoginPoll ==
    /\ program = "login_poll"
    /\ usersKind = "absent"
    /\ batchLen = 0
    /\ max_attempts = 0
    /\ LoginIdle
    /\ pc = "lp_loop"
    /\ gd_files = {}
    /\ tv_page = {}
    /\ form_page = NoForms
    /\ sf_env = NoSftpEnv
    /\ InitCommon

NextLoginPoll ==
    \/ lp_tick
    \/ lp_timeout

SpecLoginPoll == InitLoginPoll /\ [][NextLoginPoll]_vars

\* run_gcloud_setup called once.
InitGcloudSetup ==
    /\ program = "gcloud_setup"
    /\ usersKind = "absent"
    /\ batchLen = 0
    /\ max_attempts = 0
    /\ LoginIdle
    /\ pc = "gs_popen"
    /\ gd_files = {}
    /\ tv_page = {}
    /\ form_page = NoForms
    /\ sf_env = NoSftpEnv
    /\ InitCommon

NextGcloudSetup ==
    \/ gs_popen
    \/ gs_readline
    \/ gs_read_timeout
    \/ gs_navigate
    \/ gs_code
    \/ gs_send

SpecGcloudSetup == InitGcloudSetup /\ [][NextGcloudSetup]_vars

\* ------------------------------------------------------------------ claims

\* The named steps of process_single_user in the order of main.py:1745-1850,
\* and every operation it invokes before the finally block.
StepOrder ==
    <<"login", "authenticator_setup", "verify_authenticator", "enable_2sv",
      "app_password">>
PsuOrder ==
    <<"get_chrome_driver", "login", "authenticator_setup", "sftp_upload",
      "verify_authenticator", "enable_2sv", "app_password", "dynamodb_save">>

IsStep(c) == \E i \in 1..Len(StepOrder) : StepOrder[i] = c
NotQuit(c) == c # "driver.quit"

\* the operations invoked for the current credential, the finally block aside
Body == SelectSeq(calls, NotQuit)

\* the named step most recently started, "init" before the first
StepInProgress ==
    LET started == SelectSeq(calls, IsStep)
    IN IF started = <<>> THEN "init" ELSE started[Len(started)]

\* process_single_user has reached a return statement or its except block
Returning == program = "main" /\ pc \in {"finally", "return"}

\* sub occurs in s
Contains(s, sub) ==
    \E i \in 0..(Len(s) - Len(sub)) : SubSeq(s, i + 1, i + Len(sub)) = sub

\* C1: a batch of more than 10 entries is rejected with status 'failed', an
\* error_message and empty results; no entry is read, process_single_user and
\* get_chrome_driver are never called, no session exists and no step runs.
C1_TooManyRejected ==
    (program = "main" /\ usersKind = "list" /\ batchLen > MaxUsers) =>
        /\ pc \in {"start", "done"}
        /\ users = <<>>
        /\ psuCalls = 0
        /\ gcdCalls = 0
        /\ handed = {}
        /\ calls = <<>>
        /\ stepResults = <<>>
        /\ pc = "done" =>
             /\ response.status = "failed"
             /\ Truthy(response.error_message)
             /\ response.results = <<>>

C1_Witness ==
    /\ program = "main"
    /\ usersKind = "list"
    /\ batchLen = MaxUsers + 1
    /\ pc = "done"
    /\ response.status = "failed"

\* the record handler attaches to entry u, as far as the entry determines it
RecordOf(r, u) ==
    LET e == Strip(Get(u.email, <<>>))
        p == Strip(Get(u.password, <<>>))
    IN /\ r.email = IF Truthy(e) THEN e ELSE <<"unknown">>
       /\ (~Truthy(e) \/ ~Truthy(p)) => r.status = "failed"

\* C2: in batch mode with 1 to 10 entries the handler processes every entry in
\* list order: it never ends before the last entry, results holds exactly one
\* record per entry read, results[i] is the record of users[i], and every
\* session handed out has been quit when get_chrome_driver is called for the
\* next entry.
C2_AsClaimed ==
    (program = "main" /\ usersKind = "list" /\ batchLen \in 1..MaxUsers) =>
        /\ pc # "crashed"
        /\ pc \in {"batch_loop", "done"} =>
             /\ Len(results) = Len(users)
             /\ \A i \in 1..Len(results) : RecordOf(results[i], users[i])
        /\ pc = "done" =>
             /\ Len(users) = batchLen
             /\ response.results = results
        /\ pc = "driver_init" =>
             /\ handed \subseteq quitCalls
             /\ Len(results) = Len(users) - 1

\* C3: a driver that get_chrome_driver returned has had driver.quit() invoked
\* on it when the processing of its credential ends, on every path; at any
\* moment the only session not yet quit is the current credential's driver.
C3_DriverAlwaysQuit ==
    /\ pc \in {"return", "batch_loop", "prep_loop", "done", "crashed"} =>
         handed \subseteq quitCalls
    /\ handed \ quitCalls \subseteq {driver}
    /\ quitCalls \subseteq handed

C3_Witness ==
    /\ program = "main"
    /\ pc = "return"
    /\ driver # NoDriver
    /\ driver \in quitCalls
    /\ Body = SubSeq(PsuOrder, 1, 4)
    /\ ret.status = "failed"

\* C4: the operations of a credential are invoked in the fixed order, each at
\* most once; a step that returned success=False is the last operation
\* invoked (no later step, no later sink) and a 'failed' record is returned.
C4_StepsInOrder ==
    program = "main" =>
        /\ Len(Body) <= Len(PsuOrder)
        /\ Body = SubSeq(PsuOrder, 1, Len(Body))
        /\ Len(stepResults) = Len(SelectSeq(calls, IsStep))
        /\ \A i \in 1..Len(stepResults) :
             ~stepResults[i] =>
                 /\ i = Len(stepResults)
                 /\ Body[Len(Body)] = StepOrder[i]
                 /\ pc \in {"finally", "return"}
                 /\ ret.status = "failed"

C4_Witness ==
    /\ program = "main"
    /\ pc = "return"
    /\ stepResults = <<TRUE, TRUE, FALSE>>
    /\ Body = SubSeq(PsuOrder, 1, 5)
    /\ ret.status = "failed"

\* the furthest step completed when step i fails
PrevStep(i) == IF i = 1 THEN "init" ELSE StepOrder[i - 1]

\* C5: when a step fails, the record's step_completed names the step before
\* the failing one ('init' if none completed) and its error_step is the error
\* code the failing step returned.
C5_AsClaimed ==
    (Returning /\ stepResults # <<>> /\ ~stepResults[Len(stepResults)]) =>
        /\ ret.step_completed = PrevStep(Len(stepResults))
        /\ ret.error_step = error_code

\* C6: no exception leaves process_single_user; an exception raised by
\* get_chrome_driver or inside the try block becomes a 'failed' record whose
\* error_step is the step in progress ('init' for driver start-up) and whose
\* error_message begins with 'Unhandled exception:'.
C6_NoExceptionEscapes ==
    program = "main" =>
        /\ exc = NoneSeq
        /\ (pc = "crashed" => ret = NoRet /\ calls = <<>>)
        /\ (Returning /\ Body[Len(Body)] \in {"get_chrome_driver", "sftp_upload"}
              /\ (Body[Len(Body)] = "get_chrome_driver" => driver = NoDriver)) =>
               /\ ret.status = "failed"
               /\ ret.error_step = StepInProgress
               /\ (driver = NoDriver => ret.error_step = "init")
               /\ Len(ret.error_message) > 1
               /\ Head(ret.error_message) = "Unhandled exception: "

C6_Witness ==
    /\ program = "main"
    /\ pc = "return"
    /\ calls = <<"get_chrome_driver">>
    /\ ret.status = "failed"
    /\ ret.error_step = "init"
    /\ ret.error_message =
         <<"Unhandled exception: ", "Chrome binary not found in Lambda environment">>

\* C7: in every record process_single_user returns, secret_key is None exactly
\* when no secret was extracted, otherwise the first 4 characters of the
\* extracted secret, '****' and its last 4 characters; neither the full secret
\* nor the account password occurs in any field of the record.
C7_SecretMasked ==
    (Returning /\ ret # NoRet) =>
        /\ (ret.secret_key = NoneSeq) <=> (extracted = NoneSeq)
        /\ extracted # NoneSeq =>
             /\ Len(extracted) >= 4
             /\ ret.secret_key =
                  SubSeq(extracted, 1, 4) \o <<"*", "*", "*", "*">> \o
                  SubSeq(extracted, Len(extracted) - 3, Len(extracted))
        /\ \A f \in {ret.email, ret.error_message, ret.app_password, ret.secret_key} :
             /\ ~Contains(f, password)
             /\ extracted # NoneSeq => ~Contains(f, extracted)

C7_Witness ==
    /\ Returning
    /\ ret.status = "failed"
    /\ extracted = Cleaned(TextLong)
    /\ ret.secret_key = <<"B", "B", "C", "D", "*", "*", "*", "*", "D", "C", "B", "B">>

\* C8: the record's status is 'success' exactly when all five steps returned
\* success; a success record has step_completed 'completed', error_step None,
\* an app_password, a 12-character secret_key XXXX****XXXX and timings for
\* login, authenticator_setup and app_password; a failed record has
\* app_password None.
C8_SuccessIffAllSteps ==
    (Returning /\ ret # NoRet) =>
        /\ ret.status \in {"success", "failed"}
        /\ (ret.status = "success") <=> (stepResults = <<TRUE, TRUE, TRUE, TRUE, TRUE>>)
        /\ ret.status = "success" =>
             /\ ret.step_completed = "completed"
             /\ ret.error_step = NoneStr
             /\ ret.app_password # NoneSeq
             /\ Len(ret.secret_key) = 12
             /\ \A i \in 1..12 : (ret.secret_key[i] = "*") <=> (i \in 5..8)
             /\ {"login", "authenticator_setup", "app_password"} \subseteq ret.timings
        /\ ret.status = "failed" => ret.app_password = NoneSeq

C8_Witness ==
    /\ Returning
    /\ ret.status = "success"
    /\ stepResults = <<TRUE, TRUE, TRUE, TRUE, TRUE>>
    /\ ret.app_password = AppPwNominal

\* the ticks whose URL contained the target
ReachedTicks == {i \in 1..Len(ticks) : TargetHost \in ticks[i].url}

\* C9: handle_post_login_pages (given at least one attempt) performs at most
\* max_attempts ticks and always
\* ends by returning: (True, None, None) exactly when some tick's URL
\* contained 'myaccount.google.com', with no click or navigation on that tick,
\* and (False, 'POST_LOGIN_TIMEOUT', message) in every other case.
C9_AsClaimed ==
    (program = "post_login" /\ max_attempts >= 1) =>
        /\ Len(ticks) <= max_attempts
        /\ pc # "pl_raised"
        /\ pc = "pl_returned" =>
             /\ plRet.success <=> ReachedTicks # {}
             /\ plRet.success =>
                  /\ plRet = Ok3
                  /\ \A i \in ReachedTicks : ~ticks[i].clicked /\ ~ticks[i].navigated
             /\ ~plRet.success =>
                  /\ plRet.error_code = "POST_LOGIN_TIMEOUT"
                  /\ Truthy(plRet.error_message)

\* the last 3 ticks of a call that ran out of attempts
FinalTicks == {i \in 1..Len(ticks) : i > Len(ticks) - LastAttempts}

\* the page kinds the claim names
InterstitialKinds == {"speedbump", "verify", "review", "unrecognized"}

\* C10: when handle_post_login_pages (given at least 3 attempts) ends with the
\* timed-out result after last 3 ticks that each observed an interstitial page
\* (speedbump, verification, review or unrecognized), one of those ticks
\* issued driver.get('https://myaccount.google.com/').
C10_AsClaimed ==
    (program = "post_login" /\ pc = "pl_returned" /\ ~plRet.success
       /\ max_attempts >= LastAttempts
       /\ \A i \in FinalTicks : ticks[i].kind \in InterstitialKinds) =>
        \E i \in FinalTicks : ticks[i].navigated

\* C11: on a TOTP challenge with an OTP input, login_google without a secret
\* returns 2FA_REQUIRED and submits nothing; with a secret it makes at most 3
\* submissions, each with a code no earlier attempt submitted, stops once the
\* URL has left the page, and returns OTP_REJECTED when the URL is still on
\* the page after the third attempt.
C11_AsClaimed ==
    program = "login" =>
        /\ ~Truthy(known_totp_secret) => submitted_codes = <<>>
        /\ lgRet.error_code = "2FA_REQUIRED" => ~Truthy(known_totp_secret)
        /\ Len(submitted_codes) <= OtpRetries
        /\ retry <= OtpRetries
        /\ pc = "lg_continue" => retry <= OtpRetries
        /\ lgRet.error_code = "OTP_REJECTED" => retry = OtpRetries
        /\ \A i, j \in 1..Len(submitted_codes) :
             i < j => submitted_codes[i] # submitted_codes[j]

\* C18: when the invocation supplies known_totp_secret (or KNOWN_TOTP_SECRET),
\* login_google receives it, and a TOTP challenge does not end the run with
\* 2FA_REQUIRED.
C18_AsClaimed ==
    (program = "login" /\ caller = "process_single_user" /\ Truthy(event_totp)
       /\ pc # "lg_call") =>
        /\ known_totp_secret = event_totp
        /\ lgRet.error_code # "2FA_REQUIRED"

\* C12: verify_authenticator_setup returns success only if the page accepted
\* the submitted code; a rejected code is followed by another submission or
\* by a failure result.
C12_AsClaimed ==
    (program = "verify" /\ pc = "va_returned" /\ verdicts # <<>>) =>
        /\ vaRet.success => verdicts[Len(verdicts)]
        /\ ~verdicts[Len(verdicts)] => ~vaRet.success

\* C13: a secret setup_authenticator returns has at least 16 characters and is
\* entirely alphanumeric, whichever locator list it came from; when the step
\* reports SECRET_EXTRACTION_FAILED no secret is held.
C13_AsClaimed ==
    program = "main" =>
        /\ secret_key # NoneSeq =>
             /\ Len(secret_key) >= MinSecretLen
             /\ \A i \in 1..Len(secret_key) : secret_key[i] \in AlnumChars
        /\ error_code = "SECRET_EXTRACTION_FAILED" => secret_key = NoneSeq

\* the value without its dash and space separators
Payload(s) == SelectSeq(s, LAMBDA c : c \notin {"-", " "})

\* C14: a value generate_app_password returns as app_password has, after
\* removing dashes and spaces, exactly 16 characters, all alphanumeric.
C14_AsClaimed ==
    (program = "app_password" /\ apRet.success) =>
        /\ Len(Payload(apRet.value)) = AppPwLen
        /\ \A i \in 1..Len(apRet.value) :
             apRet.value[i] \in AlnumChars \cup {"-", " "}

\* C16: within one call generate_app_password performs its page actions at
\* most once: it fills the app name at most once and clicks Generate at most
\* once.
C16_AsClaimed ==
    program = "app_password" =>
        /\ Cardinality({i \in 1..Len(ap_log) : ap_log[i].filled}) <= 1
        /\ Cardinality({i \in 1..Len(ap_log) : ap_log[i].clicked}) <= 1

FirstFailed == Len(ctor_log) >= 1 /\ ~ctor_log[1].initialised

\* C17: get_chrome_driver calls webdriver.Chrome at most twice; a second call
\* happens only after the first construction or initialisation failed and
\* uses the minimal option set; a failed first construction is followed by
\* exactly one more; when that one fails too the call raises and returns no
\* driver; a successful first construction is never followed by a second.
C17_OneRetry ==
    program = "driver" =>
        /\ Len(ctor_log) <= 2
        /\ Len(ctor_log) = 2 => FirstFailed /\ ctor_log[2].options = "minimal"
        /\ (Len(ctor_log) >= 1 /\ ~FirstFailed) => Len(ctor_log) = 1
        /\ pc = "gd_returned" =>
             /\ FirstFailed => Len(ctor_log) = 2
             /\ (FirstFailed /\ ~ctor_log[2].constructed) =>
                    gdRet.driver = "none" /\ gdRet.raised # NoneSeq
             /\ gdRet.driver # "none" <=>
                    (ctor_log # <<>> /\ ctor_log[Len(ctor_log)].initialised)

C17_Witness ==
    /\ program = "driver"
    /\ pc = "gd_returned"
    /\ Len(ctor_log) = 2
    /\ ctor_log[1].constructed
    /\ ~ctor_log[2].constructed
    /\ gdRet.driver = "none"

\* the step called right after step c, or "none"
CalledAfter(c) ==
    IF \E i \in 1..(Len(Body) - 1) : Body[i] = c
    THEN Body[(CHOOSE i \in 1..(Len(Body) - 1) : Body[i] = c) + 1]
    ELSE "none"

\* C15: a failed SFTP upload (connection or write error) raises nothing and
\* is followed by verify_authenticator, and by enable_2sv and app_password
\* when the step before each succeeded; a failed DynamoDB save raises nothing
\* and the record is still 'success' with the generated app_password.
C15_SinksNonFatal ==
    program = "main" =>
        /\ sftp_outcome = "failed" =>
             /\ exc = NoneSeq
             /\ pc = "verify_authenticator" \/ CalledAfter("sftp_upload") = "verify_authenticator"
             /\ (Len(stepResults) >= 3 /\ stepResults[3]) =>
                    pc = "enable_2sv" \/ CalledAfter("verify_authenticator") = "enable_2sv"
             /\ (Len(stepResults) >= 4 /\ stepResults[4]) =>
                    pc = "app_password" \/ CalledAfter("enable_2sv") = "app_password"
             /\ (Len(stepResults) >= 5 /\ stepResults[5]) =>
                    pc = "dynamodb_save" \/ CalledAfter("app_password") = "dynamodb_save"
        /\ dynamo_outcome = "failed" =>
             /\ exc = NoneSeq
             /\ Returning
             /\ ret.status = "success"
             /\ Truthy(app_password)
             /\ ret.app_password = app_password

C15_Witness ==
    /\ program = "main"
    /\ pc = "return"
    /\ sftp_outcome = "failed"
    /\ dynamo_outcome = "failed"
    /\ ret.status = "success"

PrepOrder ==
    <<"get_chrome_driver", "login", "run_gcloud_setup", "run_gcloud_resources",
      "s3.put_object">>

\* the stages run for the current user of process_workspace_prep
Stages == SelectSeq(calls, LAMBDA c : c \notin {"driver.quit", "install_gcloud"})

AllTrue(seq) == \A i \in 1..Len(seq) : seq[i]

InstallFailed ==
    /\ response.status = "failed"
    /\ Contains(response.error, <<"Gcloud install failed: ">>)

\* a record with success=True is among those just appended
AppendsSuccess ==
    \E i \in (Len(results) + 1)..Len(results') : results'[i].success

\* C20: process_workspace_prep installs gcloud once and before any browser
\* session; when the installation fails the response is 'failed', no session
\* was launched and there are no per-user results; the stages of a user run
\* in the order driver start, login, run_gcloud_setup, run_gcloud_resources,
\* s3.put_object, each only after every earlier one succeeded; a record with
\* success=True is appended only when s3.put_object succeeded.
C20_PrepOrder ==
    /\ [](program = "prep" =>
            /\ installCalls <= 1
            /\ (gcdCalls > 0 \/ handed # {} \/ results # <<>>
                  \/ pc \notin {"start", "done", "crashed"}) =>
                   installCalls = 1 /\ ~InstallFailed
            /\ InstallFailed =>
                   /\ pc = "done"
                   /\ gcdCalls = 0
                   /\ handed = {}
                   /\ results = <<>>
                   /\ "results" \notin DOMAIN response
            /\ pc \notin {"start", "done", "crashed"} =>
                   /\ Stages = SubSeq(PrepOrder, 1, Len(Stages))
                   /\ Len(stepResults) = Len(Stages)
                   /\ AllTrue(SubSeq(stepResults, 1, Len(stepResults) - 1)))
    /\ [][(program = "prep" /\ AppendsSuccess) =>
            /\ Stages' = PrepOrder
            /\ stepResults' = <<TRUE, TRUE, TRUE, TRUE, TRUE>>]_vars

C20_Witness ==
    /\ program = "prep"
    /\ pc = "prep_loop"
    /\ installCalls = 1
    /\ Stages = PrepOrder
    /\ stepResults = <<TRUE, TRUE, TRUE, TRUE, TRUE>>
    /\ Len(results) = 2
    /\ ~results[1].success
    /\ results[2].success

\* C19: enable_two_step_verification returns success whenever nothing raised,
\* also when neither 'Turn off' was found nor 'Turn on' was clicked, and
\* process_single_user then goes on to generate_app_password.
C19_ProceedsUnconfirmed ==
    (program = "main"
       /\ twosv_page \in {"already_on", "turn_on_clicked", "nothing_found"}) =>
        /\ Len(stepResults) >= 4
        /\ stepResults[4]
        /\ pc = "app_password" \/ CalledAfter("enable_2sv") = "app_password"

C19_Witness ==
    /\ program = "main"
    /\ twosv_page = "nothing_found"
    /\ CalledAfter("enable_2sv") = "app_password"
    /\ pc = "return"
    /\ ret.status = "success"

\* C21: process_workspace_prep appends exactly one record per user, in input
\* order: between two users and in the response, results is as long as the
\* users seen so far and results[i].email is the email of users[i].
C21_AsClaimed ==
    (program = "prep" /\ pc = "prep_loop") =>
        /\ Len(results) = Len(users)
        /\ \A i \in 1..Len(results) :
             results[i].email = Get(users[i].email, NoneSeq)

\* the attempt ended in a TimeoutException: field not found, Generate not
\* clicked, dialog not shown or no valid password element
TimedOut(entry) == entry.filled \/ entry.refreshed

\* C22: generate_app_password makes at most 3 attempts, with a refresh after
\* each attempt that is not the last, and when all 3 attempts ended in a
\* timeout it returns APP_PASSWORD_GENERATION_FAILED.
C22_AsClaimed ==
    program = "app_password" =>
        /\ Len(ap_log) <= MaxRetries
        /\ \A i \in 1..(Len(ap_log) - 1) : ap_log[i].refreshed
        /\ (pc = "ap_returned" /\ Len(ap_log) = MaxRetries /\ ~apRet.success
              /\ \A i \in 1..Len(ap_log) : TimedOut(ap_log[i])) =>
               /\ apRet.error_code = "APP_PASSWORD_GENERATION_FAILED"
               /\ apRet.error_message =
                      <<"Failed to generate app password after retries">>

\* s is a prefix of t
IsPrefix(s, t) == Len(s) <= Len(t) /\ SubSeq(t, 1, Len(s)) = s

\* C23: when the original 'Turn on' XPath does not resolve, the fallback XPath
\* is tried next, and when that does not resolve either, the generic patterns
\* are tried in list order, before the 'Skip' handling.
C23_AsClaimed ==
    (program = "twosv" /\ pc \in {"tv_skip", "tv_returned"} /\ tv_tried # <<>>
       /\ ~wait_for_clickable_xpath(tv_page, OriginalXpath)) =>
        /\ IsPrefix(<<OriginalXpath, FallbackXpath>>, tv_tried)
        /\ ~wait_for_clickable_xpath(tv_page, FallbackXpath) =>
               /\ Len(tv_tried) > 2
               /\ IsPrefix(tv_tried, <<OriginalXpath, FallbackXpath>> \o GenericXpaths)

\* a submission of the form is in the log
Submitted(name) ==
    \E i \in 1..Len(form_log) :
        form_log[i].form = name /\ form_log[i].act \in {"click", "enter"}

\* C24: once the identifier has been typed and login_google goes on to the
\* password form, a click on Next was performed or Enter was sent; likewise
\* for the password before the polling loop.
C24_AsClaimed ==
    program = "login_form" =>
        /\ pc \in {"lf_password", "lf_wait"} => Submitted("identifier")
        /\ pc = "lf_wait" => Submitted("password")

\* C25: whenever get_chrome_driver constructs a second driver, or raises,
\* every driver it constructed earlier in the call has been quit.
C25_AsClaimed ==
    program = "driver" =>
        \A i \in 1..Len(ctor_log) :
            (ctor_log[i].constructed
               /\ (i < Len(ctor_log) \/ (pc = "gd_returned" /\ gdRet.driver = "none"))) =>
                ctor_log[i].quit

\* C26: when upload_secret_to_sftp returns after transport.connect succeeded,
\* the SFTP client and the transport have been closed; with the user or the
\* password missing it returns (None, None) and opens no connection.
C26_AsClaimed ==
    (program = "sftp" /\ pc = "sf_returned") =>
        /\ (sf_log # <<>> /\ sf_log[1] = "connect") =>
               sftp = "closed" /\ transport = "closed"
        /\ ~(sf_env.user /\ sf_env.password) =>
               sfRet = NoPair /\ transport = "none" /\ sf_log = <<>>

\* C27: login_google returns success only on a tick whose URL contains none
\* of 'idvreenable', 'speedbump', 'twosvrequired', 'challenge'; a URL with
\* 'idvreenable' yields ID_VERIFICATION_REQUIRED; 30 ticks without a return
\* yield LOGIN_TIMEOUT.
C27_AsClaimed ==
    (program = "login_poll" /\ pc = "lp_returned") =>
        /\ lpRet.success => current_url \cap InterstitialMarkers = {}
        /\ (lpRet.error_code # "driver_crashed" /\ "idvreenable" \in current_url) =>
               lpRet.error_code = "ID_VERIFICATION_REQUIRED"
        /\ lpRet.error_code = "LOGIN_TIMEOUT" => wait_attempt = MaxWaitAttempts

\* C28: whenever run_gcloud_setup returns, the subprocess it started has
\* exited or has been killed.
C28_AsClaimed ==
    (program = "gcloud_setup" /\ pc = "gs_returned") => process # "running"

\* C29: a credential for which a sink write was attempted (the secret to
\* SFTP, the app password to DynamoDB) ends with a record of status 'success'.
C29_AsClaimed ==
    (program = "main" /\ pc = "return") =>
        /\ sftp_outcome \in {"uploaded", "failed"} => ret.status = "success"
        /\ dynamo_outcome \in DynamoOutcomes => ret.status = "success"

\* C30: an event whose 'users' value is a list of at most MaxUsers entries,
\* the empty list included, gets the batch response (status 'completed',
\* success_count + failed_count = batch_size = length of results), and
\* process_single_user is called once per entry only, never for the
\* credentials of single-user mode.
C30_AsClaimed ==
    (program = "main" /\ pc = "done" /\ usersKind = "list"
        /\ ~TooMany(batchLen)) =>
        /\ "batch_size" \in DOMAIN response
        /\ response.status = "completed"
        /\ response.batch_size = batchLen
        /\ Len(response.results) = batchLen
        /\ response.success_count + response.failed_count = batchLen
        /\ psuCalls <= batchLen

====
